---- MODULE Spec2Model ----
(***************************************************************************)
(* Content extraction of the trafilatura Rust port: the orchestrator       *)
(* extract_html (lib.rs), the selector engine extract_with_xpath           *)
(* (xpath.rs), the strategies of extract_content (extractors.rs), the      *)
(* text routine get_text_content (html.rs) and the readability fallback    *)
(* (readability.rs).                                                       *)
(*                                                                         *)
(* A Rust String is a sequence of one-character strings; its len() is its  *)
(* length in UTF-8 bytes (ByteLen).  A parsed document is the sequence of  *)
(* its nodes in document order, each with its depth in the tree.           *)
(***************************************************************************)
EXTENDS Integers, Sequences, FiniteSets, TLC

\* ------------------------------------------------------------------------
\* Strings: str::len, contains, starts_with, trim, to_lowercase, replace and
\* the regular expressions the code applies.
\* ------------------------------------------------------------------------

\* the bullet U+2022 pushed by extract_with_xpath, one character of 3 bytes
BULLET == "BULLET"

\* the copyright sign U+00A9, one character of 2 bytes
COPYSIGN == "COPYSIGN"

\* char::is_whitespace for the characters that occur
IsWs(c) == c \in {" ", "\n", "\t", "\r"}

\* str::len(): the length in bytes
ByteLen(s) ==
  Len(s) + 2 * Cardinality({i \in 1..Len(s) : s[i] = BULLET})
         + Cardinality({i \in 1..Len(s) : s[i] = COPYSIGN})

UpperChars == <<"A", "B", "C", "D", "E", "F", "G", "H", "I", "J", "K", "L", "M", "N", "O", "P", "Q", "R", "S", "T", "U", "V", "W", "X", "Y", "Z">>

LowerChars == <<"a", "b", "c", "d", "e", "f", "g", "h", "i", "j", "k", "l", "m", "n", "o", "p", "q", "r", "s", "t", "u", "v", "w", "x", "y", "z">>

LowerChar(c) ==
  IF \E i \in 1..26 : UpperChars[i] = c
  THEN LowerChars[CHOOSE i \in 1..26 : UpperChars[i] = c]
  ELSE c

\* str::to_lowercase / the ASCII case folding of eq_ignore_ascii_case
ToLower(s) == <<>> \o [i \in 1..Len(s) |-> LowerChar(s[i])]

\* the places where pat occurs in s
Occurrences(s, pat) ==
  {i \in 1..(Len(s) - Len(pat) + 1) : SubSeq(s, i, i + Len(pat) - 1) = pat}

\* whether pat occurs in s at place j
At(s, j, pat) == j + Len(pat) - 1 <= Len(s) /\ SubSeq(s, j, j + Len(pat) - 1) = pat

\* str::contains(pat)
Contains(s, pat) == Occurrences(s, pat) # {}

\* str::starts_with(pat)
StartsWith(s, pat) == Len(pat) <= Len(s) /\ SubSeq(s, 1, Len(pat)) = pat

SetMin(S) == CHOOSE x \in S : \A y \in S : x <= y

SetMax(S) == CHOOSE x \in S : \A y \in S : y <= x

\* let v = e; F(v): the value e is computed once and then named
Let(e, F(_)) == CHOOSE out \in {F(v) : v \in {e}} : TRUE

\* str::trim()
Trim(s) ==
  LET ink == {i \in 1..Len(s) : ~IsWs(s[i])}
  IN IF ink = {} THEN <<>> ELSE SubSeq(s, SetMin(ink), SetMax(ink))

\* the characters of s at the places that satisfy Keep, in order
RECURSIVE Concat(_)
Concat(ss) == IF ss = <<>> THEN <<>> ELSE Head(ss) \o Concat(Tail(ss))

\* [String].join(sep)
RECURSIVE Join(_, _)
Join(ss, sep) ==
  IF ss = <<>> THEN <<>>
  ELSE IF Len(ss) = 1 THEN ss[1]
  ELSE ss[1] \o sep \o Join(Tail(ss), sep)

\* str::replace(pat, to): the occurrences of pat, leftmost first and
\* never overlapping, become to
RECURSIVE ReplaceFrom(_, _, _, _, _)
ReplaceFrom(s, occ, patLen, to, pos) ==
  LET next == {i \in occ : i >= pos}
  IN IF next = {} THEN SubSeq(s, pos, Len(s))
     ELSE LET i == SetMin(next)
          IN SubSeq(s, pos, i - 1) \o to \o ReplaceFrom(s, occ, patLen, to, i + patLen)

Replace(s, pat, to) ==
  LET occ == Occurrences(s, pat)
  IN IF occ = {} THEN s ELSE ReplaceFrom(s, occ, Len(pat), to, 1)

\* the characters of s at the places in keep, in order
KeepAt(s, keep) ==
  LET idx == SelectSeq([i \in 1..Len(s) |-> i], LAMBDA i : i \in keep)
  IN <<>> \o [k \in 1..Len(idx) |-> s[idx[k]]]

\* str::split_whitespace(): the set of the words of s
Words(s) ==
  {SubSeq(s, i, j) : <<i, j>> \in
     {p \in (1..Len(s)) \X (1..Len(s)) :
        /\ p[1] <= p[2]
        /\ \A k \in p[1]..p[2] : ~IsWs(s[k])
        /\ (p[1] = 1 \/ IsWs(s[p[1] - 1]))
        /\ (p[2] = Len(s) \/ IsWs(s[p[2] + 1]))}}

\* Regex \n{3,} replaced by "\n\n" (xpath.rs): of a run of newlines the
\* third and later ones go
CollapseNewlines(s) ==
  KeepAt(s, {i \in 1..Len(s) :
               ~(i > 2 /\ s[i] = "\n" /\ s[i-1] = "\n" /\ s[i-2] = "\n")})

\* Regex \s+ replaced by " " (MULTIPLE_SPACES_RE): a run of whitespace
\* becomes one space
CollapseSpaces(s) ==
  LET kept == KeepAt(s, {i \in 1..Len(s) : ~IsWs(s[i]) \/ i = 1 \/ ~IsWs(s[i-1])})
  IN <<>> \o [k \in 1..Len(kept) |-> IF IsWs(kept[k]) THEN " " ELSE kept[k]]

IsBreak(c) == c \in {"\n", "\r"}

\* Regex (\r\n|\r|\n)+ replaced by "\n" (LINE_BREAKS_RE)
CollapseBreaks(s) ==
  LET kept == KeepAt(s, {i \in 1..Len(s) : ~IsBreak(s[i]) \/ i = 1 \/ ~IsBreak(s[i-1])})
  IN <<>> \o [k \in 1..Len(kept) |-> IF IsBreak(kept[k]) THEN "\n" ELSE kept[k]]

\* the places where the regex https?://\S+ can start matching
UrlStarts(s) ==
  {j \in 1..Len(s) :
     \/ /\ At(s, j, <<"h", "t", "t", "p", ":", "/", "/">>)
        /\ j + 7 <= Len(s) /\ ~IsWs(s[j + 7])
     \/ /\ At(s, j, <<"h", "t", "t", "p", "s", ":", "/", "/">>)
        /\ j + 8 <= Len(s) /\ ~IsWs(s[j + 8])}

\* Regex https?://\S+ replaced by "" (html.rs url_regex): a match runs from
\* its scheme to the next whitespace
StripUrls(s) ==
  LET starts == UrlStarts(s)
  IN IF starts = {} THEN s
     ELSE KeepAt(s, {i \in 1..Len(s) :
                       ~\E j \in starts : j <= i /\ \A k \in j..i : ~IsWs(s[k])})

\* the end of a match of \(\s*/[^\)]*\) that starts at j, or 0
PathMatchEnd(s, j) ==
  IF s[j] # "(" THEN 0
  ELSE LET ink == {k \in (j+1)..Len(s) : ~IsWs(s[k])}
       IN IF ink = {} THEN 0
          ELSE LET k == SetMin(ink)
               IN IF s[k] # "/" THEN 0
                  ELSE LET close == {e \in (k+1)..Len(s) : s[e] = ")"}
                       IN IF close = {} THEN 0 ELSE SetMin(close)

\* Regex \(\s*/[^\)]*\) replaced by "" (html.rs path_regex)
StripPaths(s) ==
  IF ~\E j \in 1..Len(s) : s[j] = "(" THEN s
  ELSE KeepAt(s, {i \in 1..Len(s) :
                    ~\E j \in 1..i : s[j] = "(" /\ i <= PathMatchEnd(s, j)})

\* the end of a match of \(\s*\) that starts at j, or 0
EmptyParenEnd(s, j) ==
  IF s[j] # "(" THEN 0
  ELSE LET ink == {k \in (j+1)..Len(s) : ~IsWs(s[k])}
       IN IF ink = {} THEN 0
          ELSE IF s[SetMin(ink)] = ")" THEN SetMin(ink) ELSE 0

\* Regex \(\s*\) replaced by "" (html.rs empty_parentheses_regex)
StripEmptyParens(s) ==
  IF ~\E j \in 1..Len(s) : s[j] = "(" THEN s
  ELSE KeepAt(s, {i \in 1..Len(s) :
                    ~\E j \in 1..i : s[j] = "(" /\ i <= EmptyParenEnd(s, j)})

\* ------------------------------------------------------------------------
\* The parsed document (scraper::Html): its nodes in document order.  A node
\* is an element, a text node ("#text") or a comment ("#comment"); depth is
\* its depth below the document node (the <html> element has depth 0).
\* ------------------------------------------------------------------------

NoAttrs == <<>>

El(tag, depth, attrs) == [tag |-> tag, depth |-> depth, attrs |-> attrs, text |-> <<>>]

Tx(depth, text) == [tag |-> "#text", depth |-> depth, attrs |-> NoAttrs, text |-> text]

\* the nodes of a fragment, k levels deeper
Shift(block, k) ==
  <<>> \o [i \in 1..Len(block) |-> [block[i] EXCEPT !.depth = @ + k]]

IsElem(d, i) == d[i].tag \notin {"#text", "#comment"}

\* Element::attr(name) is Some(_)
HasAttr(d, i, a) == a \in DOMAIN d[i].attrs

\* the last node of the subtree of node i
SubtreeEnd(d, i) ==
  LET stop == {j \in (i+1)..Len(d) : d[j].depth <= d[i].depth}
  IN IF stop = {} THEN Len(d) ELSE SetMin(stop) - 1

\* the descendants of node i
Desc(d, i) == (i+1)..SubtreeEnd(d, i)

\* NodeRef::parent(): the parent of node i, 0 for the document node
Parent(d, i) ==
  IF d[i].depth = 0 THEN 0
  ELSE SetMax({j \in 1..(i-1) : d[j].depth = d[i].depth - 1})

\* the ancestors of node i
Ancestors(d, i) == {j \in 1..(i-1) : d[j].depth < d[i].depth /\ i <= SubtreeEnd(d, j)}

\* the increasing sequence of the numbers in S
Sorted(S) ==
  IF S = {} THEN <<>>
  ELSE SelectSeq([i \in 1..SetMax(S) |-> i], LAMBDA i : i \in S)

\* ElementRef::text(): the text nodes below node i, in document order
TextNodes(d, i) == Sorted({j \in Desc(d, i) : d[j].tag = "#text"})

\* ElementRef::text().collect::<String>()
TextOf(d, i) ==
  LET ts == TextNodes(d, i) IN Concat([k \in 1..Len(ts) |-> d[ts[k]].text])

\* Html::select / ElementRef::select: the elements that match, as the set of
\* their places; scope 0 is the whole document, an element's own select
\* leaves the element itself out
Select(d, scope, Matches(_, _)) ==
  {i \in (IF scope = 0 THEN 1..Len(d) ELSE Desc(d, scope)) : IsElem(d, i) /\ Matches(d, i)}

\* [attr*='v']
AttrContains(d, i, a, v) == HasAttr(d, i, a) /\ Contains(d[i].attrs[a], v)

\* [attr*='v' i]
AttrContainsI(d, i, a, v) == HasAttr(d, i, a) /\ Contains(ToLower(d[i].attrs[a]), ToLower(v))

\* [attr^='v']
AttrPrefix(d, i, a, v) == HasAttr(d, i, a) /\ StartsWith(d[i].attrs[a], v)

\* [attr='v'], and #v for the id
AttrIs(d, i, a, v) == HasAttr(d, i, a) /\ d[i].attrs[a] = v

\* .v: v is one of the words of the class attribute
HasClass(d, i, v) == HasAttr(d, i, "class") /\ v \in Words(d[i].attrs["class"])

HasAncestor(d, i, Matches(_, _)) == \E j \in Ancestors(d, i) : Matches(d, j)

HeadingTags == {"h1", "h2", "h3", "h4", "h5", "h6"}

\* ------------------------------------------------------------------------
\* html.rs: the class and id hints
\* ------------------------------------------------------------------------

\* has_class_hint: the class attribute contains one of the hints
has_class_hint(d, i, hints) ==
  HasAttr(d, i, "class") /\ \E h \in hints : Contains(d[i].attrs["class"], h)

\* has_id_hint: the id attribute contains one of the hints
has_id_hint(d, i, hints) ==
  HasAttr(d, i, "id") /\ \E h \in hints : Contains(d[i].attrs["id"], h)

\* html.rs UNWANTED_CLASSES
UNWANTED_CLASSES ==
  {<<"n", "a", "v">>,
   <<"n", "a", "v", "b", "a", "r">>,
   <<"n", "a", "v", "i", "g", "a", "t", "i", "o", "n">>,
   <<"m", "e", "n", "u">>,
   <<"f", "o", "o", "t", "e", "r">>,
   <<"c", "o", "m", "m", "e", "n", "t">>,
   <<"w", "i", "d", "g", "e", "t">>,
   <<"s", "i", "d", "e", "b", "a", "r">>,
   <<"a", "d", "v", "e", "r", "t", "i", "s", "e", "m", "e", "n", "t">>,
   <<"a", "d">>,
   <<"a", "d", "v", "e", "r", "t">>,
   <<"p", "o", "p", "u", "p">>,
   <<"b", "a", "n", "n", "e", "r">>,
   <<"s", "o", "c", "i", "a", "l">>,
   <<"s", "h", "a", "r", "i", "n", "g">>,
   <<"s", "h", "a", "r", "e">>,
   <<"r", "e", "l", "a", "t", "e", "d">>,
   <<"r", "e", "c", "o", "m", "m", "e", "n", "d">>,
   <<"p", "r", "o", "m", "o", "t", "i", "o", "n">>,
   <<"s", "h", "o", "p", "p", "i", "n", "g">>,
   <<"s", "u", "b", "s", "c", "r", "i", "b", "e">>,
   <<"s", "u", "b", "s", "c", "r", "i", "p", "t", "i", "o", "n">>,
   <<"n", "e", "w", "s", "l", "e", "t", "t", "e", "r">>,
   <<"p", "r", "o", "m", "o">>,
   <<"m", "a", "s", "t", "h", "e", "a", "d">>,
   <<"a", "u", "x">>,
   <<"t", "o", "p", "-", "b", "a", "r">>,
   <<"b", "r", "e", "a", "d", "c", "r", "u", "m", "b">>,
   <<"b", "y", "l", "i", "n", "e">>,
   <<"a", "u", "t", "h", "o", "r", "-", "i", "n", "f", "o">>,
   <<"m", "e", "t", "a", "d", "a", "t", "a">>,
   <<"d", "a", "t", "e", "-", "i", "n", "f", "o">>,
   <<"b", "o", "t", "t", "o", "m", "-", "o", "f", "-", "a", "r", "t", "i", "c", "l", "e">>,
   <<"b", "o", "t", "t", "o", "m", "-", "w", "r", "a", "p", "p", "e", "r">>,
   <<"d", "o", "w", "n", "l", "o", "a", "d">>,
   <<"e", "x", "t", "e", "r", "n", "a", "l">>,
   <<"t", "o", "o", "l", "b", "a", "r">>,
   <<"s", "o", "c", "i", "a", "l", "-", "m", "e", "d", "i", "a">>,
   <<"p", "a", "g", "i", "n", "a", "t", "i", "o", "n">>,
   <<"p", "a", "g", "e", "r">>,
   <<"p", "a", "g", "e", "s">>,
   <<"g", "a", "l", "l", "e", "r", "y">>,
   <<"a", "t", "t", "a", "c", "h", "m", "e", "n", "t">>,
   <<"v", "i", "e", "w", "e", "r">>,
   <<"c", "o", "p", "y", "r", "i", "g", "h", "t">>,
   <<"d", "i", "s", "c", "l", "a", "i", "m", "e", "r">>,
   <<"t", "a", "g", "s">>,
   <<"t", "a", "g", "-", "c", "l", "o", "u", "d">>,
   <<"t", "o", "p", "i", "c", "s">>,
   <<"t", "o", "p", "i", "c", "-", "l", "i", "s", "t">>,
   <<"c", "a", "t", "e", "g", "o", "r", "y">>,
   <<"c", "a", "t", "e", "g", "o", "r", "i", "e", "s">>,
   <<"c", "a", "t", "-", "i", "t", "e", "m">>,
   <<"a", "u", "t", "h", "o", "r">>,
   <<"d", "a", "t", "e", "l", "i", "n", "e">>,
   <<"t", "i", "m", "e", "s", "t", "a", "m", "p">>,
   <<"t", "i", "m", "e", "-", "i", "n", "f", "o">>,
   <<"p", "u", "b", "l", "i", "s", "h", "e", "d">>,
   <<"p", "u", "b", "-", "d", "a", "t", "e">>,
   <<"p", "u", "b", "l", "i", "c", "a", "t", "i", "o", "n", "-", "d", "a", "t", "e">>,
   <<"p", "o", "s", "t", "-", "m", "e", "t", "a">>,
   <<"a", "r", "t", "i", "c", "l", "e", "-", "m", "e", "t", "a">>,
   <<"a", "r", "t", "i", "c", "l", "e", "-", "h", "e", "a", "d", "e", "r">>,
   <<"a", "r", "t", "i", "c", "l", "e", "-", "f", "o", "o", "t", "e", "r">>,
   <<"a", "r", "t", "i", "c", "l", "e", "-", "b", "y", "l", "i", "n", "e">>,
   <<"a", "r", "t", "i", "c", "l", "e", "-", "d", "e", "t", "a", "i", "l", "s">>,
   <<"s", "t", "o", "r", "y", "-", "m", "e", "t", "a">>,
   <<"s", "t", "o", "r", "y", "-", "h", "e", "a", "d", "e", "r">>,
   <<"h", "e", "a", "d", "l", "i", "n", "e">>,
   <<"s", "u", "b", "h", "e", "a", "d", "l", "i", "n", "e">>,
   <<"s", "u", "m", "m", "a", "r", "y">>,
   <<"k", "i", "c", "k", "e", "r">>,
   <<"d", "e", "c", "k">>,
   <<"c", "r", "e", "d", "i", "t">>,
   <<"s", "o", "u", "r", "c", "e">>,
   <<"c", "a", "p", "t", "i", "o", "n">>,
   <<"t", "i", "t", "l", "e", "-", "i", "n", "f", "o">>,
   <<"r", "e", "a", "d", "-", "m", "o", "r", "e">>,
   <<"m", "o", "r", "e", "-", "l", "i", "n", "k">>,
   <<"a", "l", "s", "o", "-", "r", "e", "a", "d">>,
   <<"a", "l", "s", "o", "-", "s", "e", "e">>,
   <<"s", "e", "e", "-", "a", "l", "s", "o">>,
   <<"r", "e", "c", "o", "m", "m", "e", "n", "d", "e", "d">>,
   <<"r", "e", "c", "o", "m", "m", "e", "n", "d", "a", "t", "i", "o", "n", "s">>,
   <<"p", "o", "p", "u", "l", "a", "r", "i", "t", "y">>,
   <<"m", "o", "s", "t", "-", "r", "e", "a", "d">>,
   <<"m", "o", "s", "t", "-", "s", "h", "a", "r", "e", "d">>,
   <<"t", "r", "e", "n", "d", "i", "n", "g">>,
   <<"h", "o", "t">>}

\* html.rs UNWANTED_IDS
UNWANTED_IDS ==
  {<<"n", "a", "v">>,
   <<"n", "a", "v", "b", "a", "r">>,
   <<"n", "a", "v", "i", "g", "a", "t", "i", "o", "n">>,
   <<"m", "e", "n", "u">>,
   <<"f", "o", "o", "t", "e", "r">>,
   <<"c", "o", "m", "m", "e", "n", "t", "s">>,
   <<"s", "i", "d", "e", "b", "a", "r">>,
   <<"a", "d", "v", "e", "r", "t", "i", "s", "e", "m", "e", "n", "t">>,
   <<"r", "e", "l", "a", "t", "e", "d">>,
   <<"r", "e", "c", "o", "m", "m", "e", "n", "d">>,
   <<"s", "o", "c", "i", "a", "l">>,
   <<"s", "h", "a", "r", "i", "n", "g">>,
   <<"s", "u", "b", "s", "c", "r", "i", "b", "e">>,
   <<"s", "u", "b", "s", "c", "r", "i", "p", "t", "i", "o", "n">>,
   <<"n", "e", "w", "s", "l", "e", "t", "t", "e", "r">>,
   <<"p", "r", "o", "m", "o">>,
   <<"m", "a", "s", "t", "h", "e", "a", "d">>,
   <<"t", "o", "p", "-", "b", "a", "r">>,
   <<"b", "r", "e", "a", "d", "c", "r", "u", "m", "b">>,
   <<"b", "y", "l", "i", "n", "e">>,
   <<"a", "u", "t", "h", "o", "r", "-", "i", "n", "f", "o">>,
   <<"m", "e", "t", "a", "d", "a", "t", "a">>,
   <<"d", "a", "t", "e", "-", "i", "n", "f", "o">>,
   <<"b", "o", "t", "t", "o", "m", "-", "o", "f", "-", "a", "r", "t", "i", "c", "l", "e">>,
   <<"b", "o", "t", "t", "o", "m", "-", "w", "r", "a", "p", "p", "e", "r">>,
   <<"d", "o", "w", "n", "l", "o", "a", "d">>,
   <<"e", "x", "t", "e", "r", "n", "a", "l">>,
   <<"t", "o", "o", "l", "b", "a", "r">>,
   <<"s", "o", "c", "i", "a", "l", "-", "m", "e", "d", "i", "a">>,
   <<"p", "a", "g", "i", "n", "a", "t", "i", "o", "n">>,
   <<"p", "a", "g", "e", "r">>,
   <<"p", "a", "g", "e", "s">>,
   <<"g", "a", "l", "l", "e", "r", "y">>,
   <<"a", "t", "t", "a", "c", "h", "m", "e", "n", "t">>,
   <<"v", "i", "e", "w", "e", "r">>,
   <<"c", "o", "p", "y", "r", "i", "g", "h", "t">>,
   <<"d", "i", "s", "c", "l", "a", "i", "m", "e", "r">>,
   <<"t", "a", "g", "s">>,
   <<"t", "a", "g", "-", "c", "l", "o", "u", "d">>,
   <<"t", "o", "p", "i", "c", "s">>,
   <<"t", "o", "p", "i", "c", "-", "l", "i", "s", "t">>,
   <<"c", "a", "t", "e", "g", "o", "r", "y">>,
   <<"c", "a", "t", "e", "g", "o", "r", "i", "e", "s">>,
   <<"a", "u", "t", "h", "o", "r">>,
   <<"d", "a", "t", "e", "l", "i", "n", "e">>,
   <<"t", "i", "m", "e", "s", "t", "a", "m", "p">>,
   <<"t", "i", "m", "e", "-", "i", "n", "f", "o">>,
   <<"p", "u", "b", "l", "i", "s", "h", "e", "d">>,
   <<"p", "u", "b", "-", "d", "a", "t", "e">>,
   <<"p", "u", "b", "l", "i", "c", "a", "t", "i", "o", "n", "-", "d", "a", "t", "e">>,
   <<"p", "o", "s", "t", "-", "m", "e", "t", "a">>,
   <<"a", "r", "t", "i", "c", "l", "e", "-", "m", "e", "t", "a">>,
   <<"a", "r", "t", "i", "c", "l", "e", "-", "h", "e", "a", "d", "e", "r">>,
   <<"a", "r", "t", "i", "c", "l", "e", "-", "f", "o", "o", "t", "e", "r">>,
   <<"a", "r", "t", "i", "c", "l", "e", "-", "b", "y", "l", "i", "n", "e">>,
   <<"a", "r", "t", "i", "c", "l", "e", "-", "d", "e", "t", "a", "i", "l", "s">>,
   <<"s", "t", "o", "r", "y", "-", "m", "e", "t", "a">>,
   <<"s", "t", "o", "r", "y", "-", "h", "e", "a", "d", "e", "r">>,
   <<"h", "e", "a", "d", "l", "i", "n", "e">>,
   <<"s", "u", "b", "h", "e", "a", "d", "l", "i", "n", "e">>,
   <<"s", "u", "m", "m", "a", "r", "y">>,
   <<"k", "i", "c", "k", "e", "r">>,
   <<"d", "e", "c", "k">>,
   <<"c", "r", "e", "d", "i", "t">>,
   <<"s", "o", "u", "r", "c", "e">>,
   <<"c", "a", "p", "t", "i", "o", "n">>,
   <<"t", "i", "t", "l", "e", "-", "i", "n", "f", "o">>,
   <<"r", "e", "a", "d", "-", "m", "o", "r", "e">>,
   <<"m", "o", "r", "e", "-", "l", "i", "n", "k">>,
   <<"a", "l", "s", "o", "-", "r", "e", "a", "d">>,
   <<"a", "l", "s", "o", "-", "s", "e", "e">>,
   <<"s", "e", "e", "-", "a", "l", "s", "o">>,
   <<"r", "e", "c", "o", "m", "m", "e", "n", "d", "e", "d">>,
   <<"r", "e", "c", "o", "m", "m", "e", "n", "d", "a", "t", "i", "o", "n", "s">>,
   <<"p", "o", "p", "u", "l", "a", "r", "i", "t", "y">>,
   <<"m", "o", "s", "t", "-", "r", "e", "a", "d">>,
   <<"m", "o", "s", "t", "-", "s", "h", "a", "r", "e", "d">>,
   <<"t", "r", "e", "n", "d", "i", "n", "g">>,
   <<"h", "o", "t">>}

\* xpath.rs WIKI_SKIP_SECTION_TITLES
WIKI_SKIP_SECTION_TITLES ==
  {<<"R", "e", "f", "e", "r", "e", "n", "c", "e", "s">>,
   <<"E", "x", "t", "e", "r", "n", "a", "l", " ", "l", "i", "n", "k", "s">>,
   <<"S", "e", "e", " ", "a", "l", "s", "o">>,
   <<"F", "u", "r", "t", "h", "e", "r", " ", "r", "e", "a", "d", "i", "n", "g">>,
   <<"N", "o", "t", "e", "s">>,
   <<"B", "i", "b", "l", "i", "o", "g", "r", "a", "p", "h", "y">>,
   <<"S", "o", "u", "r", "c", "e", "s">>,
   <<"C", "i", "t", "a", "t", "i", "o", "n", "s">>,
   <<"F", "o", "o", "t", "n", "o", "t", "e", "s">>,
   <<"L", "i", "t", "e", "r", "a", "t", "u", "r", "e">>,
   <<"L", "i", "t", "e", "r", "a", "t", "u", "r">>,
   <<"W", "e", "b", "l", "i", "n", "k", "s">>,
   <<"E", "n", "l", "a", "c", "e", "s", " ", "e", "x", "t", "e", "r", "n", "o", "s">>}

\* xpath.rs EXCLUDE_ELEMENTS
EXCLUDE_ELEMENTS ==
  {"nav", "aside", "footer", "menu", "header", "form", "script", "style", "noscript", "figcaption", "iframe", "toc"}

\* xpath.rs EXCLUDE_CLASSES
EXCLUDE_CLASSES ==
  {<<"n", "a", "v">>,
   <<"n", "a", "v", "b", "a", "r">>,
   <<"m", "e", "n", "u">>,
   <<"f", "o", "o", "t", "e", "r">>,
   <<"s", "i", "d", "e", "b", "a", "r">>,
   <<"c", "o", "m", "m", "e", "n", "t">>,
   <<"w", "i", "d", "g", "e", "t">>,
   <<"a", "d", "v", "e", "r", "t", "i", "s", "e", "m", "e", "n", "t">>,
   <<"a", "d">>,
   <<"a", "d", "v", "e", "r", "t">>,
   <<"p", "o", "p", "u", "p">>,
   <<"b", "a", "n", "n", "e", "r">>,
   <<"s", "o", "c", "i", "a", "l">>,
   <<"s", "h", "a", "r", "i", "n", "g">>,
   <<"s", "h", "a", "r", "e">>,
   <<"r", "e", "l", "a", "t", "e", "d">>,
   <<"r", "e", "c", "o", "m", "m", "e", "n", "d">>,
   <<"p", "r", "o", "m", "o", "t", "i", "o", "n">>,
   <<"s", "h", "o", "p", "p", "i", "n", "g">>,
   <<"s", "u", "b", "s", "c", "r", "i", "b", "e">>,
   <<"s", "u", "b", "s", "c", "r", "i", "p", "t", "i", "o", "n">>,
   <<"n", "e", "w", "s", "l", "e", "t", "t", "e", "r">>,
   <<"p", "r", "o", "m", "o">>,
   <<"m", "a", "s", "t", "h", "e", "a", "d">>,
   <<"a", "u", "x">>,
   <<"b", "r", "e", "a", "d", "c", "r", "u", "m", "b">>,
   <<"b", "y", "l", "i", "n", "e">>,
   <<"m", "e", "t", "a", "d", "a", "t", "a">>,
   <<"d", "a", "t", "e">>,
   <<"t", "a", "g", "s">>,
   <<"c", "l", "o", "u", "d">>,
   <<"t", "o", "p", "i", "c", "s">>,
   <<"a", "u", "t", "h", "o", "r">>,
   <<"c", "o", "p", "y", "r", "i", "g", "h", "t">>,
   <<"d", "i", "s", "c", "l", "a", "i", "m", "e", "r">>}

\* xpath.rs EXCLUDE_IDS
EXCLUDE_IDS ==
  {<<"n", "a", "v">>,
   <<"n", "a", "v", "b", "a", "r">>,
   <<"m", "e", "n", "u">>,
   <<"f", "o", "o", "t", "e", "r">>,
   <<"s", "i", "d", "e", "b", "a", "r">>,
   <<"c", "o", "m", "m", "e", "n", "t">>,
   <<"c", "o", "m", "m", "e", "n", "t", "s">>,
   <<"a", "d", "v", "e", "r", "t", "i", "s", "e", "m", "e", "n", "t">>,
   <<"s", "o", "c", "i", "a", "l">>,
   <<"s", "h", "a", "r", "i", "n", "g">>,
   <<"s", "h", "a", "r", "e">>,
   <<"r", "e", "l", "a", "t", "e", "d">>,
   <<"r", "e", "c", "o", "m", "m", "e", "n", "d">>,
   <<"n", "e", "w", "s", "l", "e", "t", "t", "e", "r">>,
   <<"p", "r", "o", "m", "o">>,
   <<"m", "a", "s", "t", "h", "e", "a", "d">>,
   <<"b", "r", "e", "a", "d", "c", "r", "u", "m", "b">>,
   <<"b", "y", "l", "i", "n", "e">>,
   <<"m", "e", "t", "a", "d", "a", "t", "a">>,
   <<"p", "a", "g", "i", "n", "a", "t", "i", "o", "n">>,
   <<"p", "a", "g", "e", "r">>,
   <<"t", "a", "g", "s">>,
   <<"t", "a", "g", "-", "c", "l", "o", "u", "d">>,
   <<"t", "o", "p", "i", "c", "s">>,
   <<"t", "o", "p", "i", "c", "-", "l", "i", "s", "t">>,
   <<"c", "a", "t", "e", "g", "o", "r", "y">>,
   <<"c", "a", "t", "e", "g", "o", "r", "i", "e", "s">>,
   <<"s", "e", "a", "r", "c", "h">>,
   <<"s", "i", "d", "e", "b", "a", "r">>,
   <<"t", "o", "c">>}

\* extractors.rs CONTENT_CLASSES, in the order extract_by_hints tries them
CONTENT_CLASSES ==
  <<<<"a", "r", "t", "i", "c", "l", "e">>,
    <<"p", "o", "s", "t">>,
    <<"c", "o", "n", "t", "e", "n", "t">>,
    <<"e", "n", "t", "r", "y">>,
    <<"m", "a", "i", "n">>,
    <<"t", "e", "x", "t">>,
    <<"b", "l", "o", "g">>,
    <<"s", "t", "o", "r", "y">>,
    <<"b", "o", "d", "y">>,
    <<"c", "o", "l", "u", "m", "n">>,
    <<"s", "e", "c", "t", "i", "o", "n">>,
    <<"p", "o", "s", "t", "-", "c", "o", "n", "t", "e", "n", "t">>,
    <<"m", "a", "i", "n", "-", "c", "o", "n", "t", "e", "n", "t">>,
    <<"a", "r", "t", "i", "c", "l", "e", "-", "c", "o", "n", "t", "e", "n", "t">>,
    <<"s", "t", "o", "r", "y", "-", "c", "o", "n", "t", "e", "n", "t">>,
    <<"s", "t", "o", "r", "y", "-", "b", "o", "d", "y">>,
    <<"n", "e", "w", "s", "-", "c", "o", "n", "t", "e", "n", "t">>,
    <<"n", "e", "w", "s", "-", "a", "r", "t", "i", "c", "l", "e">>,
    <<"n", "e", "w", "s", "-", "s", "t", "o", "r", "y">>,
    <<"e", "n", "t", "r", "y", "-", "c", "o", "n", "t", "e", "n", "t">>,
    <<"a", "r", "t", "i", "c", "l", "e", "-", "b", "o", "d", "y">>,
    <<"a", "r", "t", "i", "c", "l", "e", "-", "t", "e", "x", "t">>,
    <<"a", "r", "t", "i", "c", "l", "e", "B", "o", "d", "y">>,
    <<"c", "o", "n", "t", "e", "n", "t", "-", "a", "r", "t", "i", "c", "l", "e">>,
    <<"p", "o", "s", "t", "-", "t", "e", "x", "t">>,
    <<"p", "o", "s", "t", "-", "b", "o", "d", "y">>,
    <<"c", "o", "n", "t", "e", "n", "t", "-", "t", "e", "x", "t">>,
    <<"c", "o", "n", "t", "e", "n", "t", "-", "b", "o", "d", "y">>,
    <<"r", "i", "c", "h", "-", "t", "e", "x", "t">>,
    <<"p", "a", "g", "e", "-", "c", "o", "n", "t", "e", "n", "t">>>>

\* extractors.rs CONTENT_IDS, in the order extract_by_hints tries them
CONTENT_IDS ==
  <<<<"a", "r", "t", "i", "c", "l", "e">>,
    <<"p", "o", "s", "t">>,
    <<"c", "o", "n", "t", "e", "n", "t">>,
    <<"e", "n", "t", "r", "y">>,
    <<"m", "a", "i", "n">>,
    <<"t", "e", "x", "t">>,
    <<"b", "l", "o", "g">>,
    <<"s", "t", "o", "r", "y">>,
    <<"b", "o", "d", "y">>,
    <<"c", "o", "l", "u", "m", "n">>,
    <<"s", "e", "c", "t", "i", "o", "n">>,
    <<"p", "o", "s", "t", "-", "c", "o", "n", "t", "e", "n", "t">>,
    <<"m", "a", "i", "n", "-", "c", "o", "n", "t", "e", "n", "t">>,
    <<"a", "r", "t", "i", "c", "l", "e", "-", "c", "o", "n", "t", "e", "n", "t">>,
    <<"s", "t", "o", "r", "y", "-", "c", "o", "n", "t", "e", "n", "t">>,
    <<"s", "t", "o", "r", "y", "-", "b", "o", "d", "y">>,
    <<"n", "e", "w", "s", "-", "c", "o", "n", "t", "e", "n", "t">>,
    <<"n", "e", "w", "s", "-", "a", "r", "t", "i", "c", "l", "e">>,
    <<"n", "e", "w", "s", "-", "s", "t", "o", "r", "y">>,
    <<"e", "n", "t", "r", "y", "-", "c", "o", "n", "t", "e", "n", "t">>,
    <<"a", "r", "t", "i", "c", "l", "e", "-", "b", "o", "d", "y">>,
    <<"a", "r", "t", "i", "c", "l", "e", "-", "t", "e", "x", "t">>,
    <<"a", "r", "t", "i", "c", "l", "e", "B", "o", "d", "y">>,
    <<"c", "o", "n", "t", "e", "n", "t", "-", "a", "r", "t", "i", "c", "l", "e">>,
    <<"p", "o", "s", "t", "-", "t", "e", "x", "t">>,
    <<"p", "o", "s", "t", "-", "b", "o", "d", "y">>,
    <<"c", "o", "n", "t", "e", "n", "t", "-", "t", "e", "x", "t">>,
    <<"c", "o", "n", "t", "e", "n", "t", "-", "b", "o", "d", "y">>,
    <<"s", "t", "o", "r", "y", "-", "t", "e", "x", "t">>,
    <<"p", "a", "g", "e", "-", "c", "o", "n", "t", "e", "n", "t">>>>

\* ------------------------------------------------------------------------
\* xpath.rs: the selector engine
\* ------------------------------------------------------------------------

\* one alternative of a selector list: a tag with at most one condition on
\* an attribute
MatchesAlt(d, i, alt) ==
  /\ d[i].tag = alt.tag
  /\ CASE alt.kind = "tag" -> TRUE
       [] alt.kind = "class" -> HasClass(d, i, alt.val)
       [] alt.kind = "is" -> AttrIs(d, i, alt.attr, alt.val)
       [] alt.kind = "contains" -> AttrContains(d, i, alt.attr, alt.val)
       [] alt.kind = "containsI" -> AttrContainsI(d, i, alt.attr, alt.val)
       [] alt.kind = "prefix" -> AttrPrefix(d, i, alt.attr, alt.val)

\* xpath.rs DEFAULT_XPATHS.main_content: the alternatives of the selector
DEFAULT_MAIN_CONTENT ==
  {[tag |-> "article", kind |-> "tag", attr |-> "", val |-> <<>>],
   [tag |-> "main", kind |-> "tag", attr |-> "", val |-> <<>>],
   [tag |-> "div", kind |-> "class", attr |-> "class", val |-> <<"p", "o", "s", "t">>],
   [tag |-> "div", kind |-> "class", attr |-> "class", val |-> <<"e", "n", "t", "r", "y">>],
   [tag |-> "div", kind |-> "contains", attr |-> "class", val |-> <<"p", "o", "s", "t", "-", "t", "e", "x", "t">>],
   [tag |-> "div", kind |-> "contains", attr |-> "class", val |-> <<"p", "o", "s", "t", "_", "t", "e", "x", "t">>],
   [tag |-> "div", kind |-> "contains", attr |-> "class", val |-> <<"p", "o", "s", "t", "-", "b", "o", "d", "y">>],
   [tag |-> "div", kind |-> "contains", attr |-> "class", val |-> <<"p", "o", "s", "t", "-", "e", "n", "t", "r", "y">>],
   [tag |-> "div", kind |-> "contains", attr |-> "class", val |-> <<"p", "o", "s", "t", "e", "n", "t", "r", "y">>],
   [tag |-> "div", kind |-> "contains", attr |-> "class", val |-> <<"p", "o", "s", "t", "-", "c", "o", "n", "t", "e", "n", "t">>],
   [tag |-> "div", kind |-> "contains", attr |-> "class", val |-> <<"p", "o", "s", "t", "_", "c", "o", "n", "t", "e", "n", "t">>],
   [tag |-> "div", kind |-> "contains", attr |-> "class", val |-> <<"p", "o", "s", "t", "c", "o", "n", "t", "e", "n", "t">>],
   [tag |-> "div", kind |-> "contains", attr |-> "class", val |-> <<"p", "o", "s", "t", "C", "o", "n", "t", "e", "n", "t">>],
   [tag |-> "div", kind |-> "contains", attr |-> "class", val |-> <<"p", "o", "s", "t", "_", "i", "n", "n", "e", "r", "_", "w", "r", "a", "p", "p", "e", "r">>],
   [tag |-> "div", kind |-> "contains", attr |-> "class", val |-> <<"a", "r", "t", "i", "c", "l", "e", "-", "t", "e", "x", "t">>],
   [tag |-> "div", kind |-> "contains", attr |-> "class", val |-> <<"a", "r", "t", "i", "c", "l", "e", "t", "e", "x", "t">>],
   [tag |-> "div", kind |-> "contains", attr |-> "class", val |-> <<"a", "r", "t", "i", "c", "l", "e", "T", "e", "x", "t">>],
   [tag |-> "div", kind |-> "contains", attr |-> "id", val |-> <<"e", "n", "t", "r", "y", "-", "c", "o", "n", "t", "e", "n", "t">>],
   [tag |-> "div", kind |-> "contains", attr |-> "class", val |-> <<"e", "n", "t", "r", "y", "-", "c", "o", "n", "t", "e", "n", "t">>],
   [tag |-> "div", kind |-> "contains", attr |-> "id", val |-> <<"a", "r", "t", "i", "c", "l", "e", "-", "c", "o", "n", "t", "e", "n", "t">>],
   [tag |-> "div", kind |-> "contains", attr |-> "class", val |-> <<"a", "r", "t", "i", "c", "l", "e", "-", "c", "o", "n", "t", "e", "n", "t">>],
   [tag |-> "div", kind |-> "contains", attr |-> "id", val |-> <<"a", "r", "t", "i", "c", "l", "e", "_", "_", "c", "o", "n", "t", "e", "n", "t">>],
   [tag |-> "div", kind |-> "contains", attr |-> "class", val |-> <<"a", "r", "t", "i", "c", "l", "e", "_", "_", "c", "o", "n", "t", "e", "n", "t">>],
   [tag |-> "div", kind |-> "contains", attr |-> "id", val |-> <<"a", "r", "t", "i", "c", "l", "e", "-", "b", "o", "d", "y">>],
   [tag |-> "div", kind |-> "contains", attr |-> "class", val |-> <<"a", "r", "t", "i", "c", "l", "e", "-", "b", "o", "d", "y">>],
   [tag |-> "div", kind |-> "contains", attr |-> "id", val |-> <<"a", "r", "t", "i", "c", "l", "e", "_", "_", "b", "o", "d", "y">>],
   [tag |-> "div", kind |-> "contains", attr |-> "class", val |-> <<"a", "r", "t", "i", "c", "l", "e", "_", "_", "b", "o", "d", "y">>],
   [tag |-> "div", kind |-> "is", attr |-> "itemprop", val |-> <<"a", "r", "t", "i", "c", "l", "e", "B", "o", "d", "y">>],
   [tag |-> "div", kind |-> "containsI", attr |-> "id", val |-> <<"a", "r", "t", "i", "c", "l", "e", "b", "o", "d", "y">>],
   [tag |-> "div", kind |-> "containsI", attr |-> "class", val |-> <<"a", "r", "t", "i", "c", "l", "e", "b", "o", "d", "y">>],
   [tag |-> "div", kind |-> "is", attr |-> "id", val |-> <<"a", "r", "t", "i", "c", "l", "e", "C", "o", "n", "t", "e", "n", "t">>],
   [tag |-> "div", kind |-> "contains", attr |-> "class", val |-> <<"A", "r", "t", "i", "c", "l", "e", "C", "o", "n", "t", "e", "n", "t">>],
   [tag |-> "div", kind |-> "contains", attr |-> "class", val |-> <<"p", "a", "g", "e", "-", "c", "o", "n", "t", "e", "n", "t">>],
   [tag |-> "div", kind |-> "contains", attr |-> "class", val |-> <<"t", "e", "x", "t", "-", "c", "o", "n", "t", "e", "n", "t">>],
   [tag |-> "div", kind |-> "contains", attr |-> "id", val |-> <<"b", "o", "d", "y", "-", "t", "e", "x", "t">>],
   [tag |-> "div", kind |-> "contains", attr |-> "class", val |-> <<"b", "o", "d", "y", "-", "t", "e", "x", "t">>],
   [tag |-> "div", kind |-> "contains", attr |-> "class", val |-> <<"a", "r", "t", "i", "c", "l", "e", "_", "_", "c", "o", "n", "t", "a", "i", "n", "e", "r">>],
   [tag |-> "div", kind |-> "contains", attr |-> "id", val |-> <<"a", "r", "t", "-", "c", "o", "n", "t", "e", "n", "t">>],
   [tag |-> "div", kind |-> "contains", attr |-> "class", val |-> <<"a", "r", "t", "-", "c", "o", "n", "t", "e", "n", "t">>],
   [tag |-> "div", kind |-> "contains", attr |-> "class", val |-> <<"p", "o", "s", "t", "-", "b", "o", "d", "y", "c", "o", "p", "y">>],
   [tag |-> "div", kind |-> "contains", attr |-> "class", val |-> <<"s", "t", "o", "r", "y", "c", "o", "n", "t", "e", "n", "t">>],
   [tag |-> "div", kind |-> "contains", attr |-> "class", val |-> <<"s", "t", "o", "r", "y", "-", "c", "o", "n", "t", "e", "n", "t">>],
   [tag |-> "div", kind |-> "class", attr |-> "class", val |-> <<"p", "o", "s", "t", "a", "r", "e", "a">>],
   [tag |-> "div", kind |-> "class", attr |-> "class", val |-> <<"a", "r", "t", "-", "p", "o", "s", "t", "c", "o", "n", "t", "e", "n", "t">>],
   [tag |-> "div", kind |-> "contains", attr |-> "class", val |-> <<"t", "h", "e", "m", "e", "-", "c", "o", "n", "t", "e", "n", "t">>],
   [tag |-> "div", kind |-> "contains", attr |-> "class", val |-> <<"b", "l", "o", "g", "-", "c", "o", "n", "t", "e", "n", "t">>],
   [tag |-> "div", kind |-> "contains", attr |-> "class", val |-> <<"s", "e", "c", "t", "i", "o", "n", "-", "c", "o", "n", "t", "e", "n", "t">>],
   [tag |-> "div", kind |-> "contains", attr |-> "class", val |-> <<"s", "i", "n", "g", "l", "e", "-", "c", "o", "n", "t", "e", "n", "t">>],
   [tag |-> "div", kind |-> "contains", attr |-> "class", val |-> <<"s", "i", "n", "g", "l", "e", "-", "p", "o", "s", "t">>],
   [tag |-> "div", kind |-> "contains", attr |-> "class", val |-> <<"m", "a", "i", "n", "-", "c", "o", "l", "u", "m", "n">>],
   [tag |-> "div", kind |-> "contains", attr |-> "class", val |-> <<"w", "p", "b", "_", "t", "e", "x", "t", "_", "c", "o", "l", "u", "m", "n">>],
   [tag |-> "div", kind |-> "prefix", attr |-> "id", val |-> <<"p", "r", "i", "m", "a", "r", "y">>],
   [tag |-> "div", kind |-> "prefix", attr |-> "class", val |-> <<"a", "r", "t", "i", "c", "l", "e", " ">>],
   [tag |-> "div", kind |-> "class", attr |-> "class", val |-> <<"t", "e", "x", "t">>],
   [tag |-> "div", kind |-> "is", attr |-> "id", val |-> <<"a", "r", "t", "i", "c", "l", "e">>],
   [tag |-> "div", kind |-> "class", attr |-> "class", val |-> <<"c", "e", "l", "l">>],
   [tag |-> "div", kind |-> "is", attr |-> "id", val |-> <<"s", "t", "o", "r", "y">>],
   [tag |-> "div", kind |-> "class", attr |-> "class", val |-> <<"s", "t", "o", "r", "y">>],
   [tag |-> "div", kind |-> "contains", attr |-> "class", val |-> <<"s", "t", "o", "r", "y", "-", "b", "o", "d", "y">>],
   [tag |-> "div", kind |-> "contains", attr |-> "id", val |-> <<"s", "t", "o", "r", "y", "-", "b", "o", "d", "y">>],
   [tag |-> "div", kind |-> "contains", attr |-> "class", val |-> <<"f", "i", "e", "l", "d", "-", "b", "o", "d", "y">>],
   [tag |-> "div", kind |-> "containsI", attr |-> "class", val |-> <<"f", "u", "l", "l", "t", "e", "x", "t">>],
   [tag |-> "div", kind |-> "is", attr |-> "role", val |-> <<"a", "r", "t", "i", "c", "l", "e">>],
   [tag |-> "div", kind |-> "contains", attr |-> "id", val |-> <<"c", "o", "n", "t", "e", "n", "t", "-", "m", "a", "i", "n">>],
   [tag |-> "div", kind |-> "contains", attr |-> "class", val |-> <<"c", "o", "n", "t", "e", "n", "t", "-", "m", "a", "i", "n">>],
   [tag |-> "div", kind |-> "contains", attr |-> "class", val |-> <<"c", "o", "n", "t", "e", "n", "t", "_", "m", "a", "i", "n">>],
   [tag |-> "div", kind |-> "contains", attr |-> "id", val |-> <<"c", "o", "n", "t", "e", "n", "t", "-", "b", "o", "d", "y">>],
   [tag |-> "div", kind |-> "contains", attr |-> "class", val |-> <<"c", "o", "n", "t", "e", "n", "t", "-", "b", "o", "d", "y">>],
   [tag |-> "div", kind |-> "contains", attr |-> "id", val |-> <<"c", "o", "n", "t", "e", "n", "t", "B", "o", "d", "y">>],
   [tag |-> "div", kind |-> "contains", attr |-> "class", val |-> <<"c", "o", "n", "t", "e", "n", "t", "_", "_", "b", "o", "d", "y">>],
   [tag |-> "div", kind |-> "containsI", attr |-> "id", val |-> <<"m", "a", "i", "n", "-", "c", "o", "n", "t", "e", "n", "t">>],
   [tag |-> "div", kind |-> "containsI", attr |-> "class", val |-> <<"m", "a", "i", "n", "-", "c", "o", "n", "t", "e", "n", "t">>],
   [tag |-> "div", kind |-> "containsI", attr |-> "class", val |-> <<"p", "a", "g", "e", "-", "c", "o", "n", "t", "e", "n", "t">>],
   [tag |-> "div", kind |-> "is", attr |-> "id", val |-> <<"c", "o", "n", "t", "e", "n", "t">>],
   [tag |-> "div", kind |-> "class", attr |-> "class", val |-> <<"c", "o", "n", "t", "e", "n", "t">>],
   [tag |-> "section", kind |-> "prefix", attr |-> "class", val |-> <<"m", "a", "i", "n">>],
   [tag |-> "section", kind |-> "prefix", attr |-> "id", val |-> <<"m", "a", "i", "n">>],
   [tag |-> "section", kind |-> "prefix", attr |-> "role", val |-> <<"m", "a", "i", "n">>],
   [tag |-> "div", kind |-> "prefix", attr |-> "class", val |-> <<"m", "a", "i", "n">>],
   [tag |-> "div", kind |-> "prefix", attr |-> "id", val |-> <<"m", "a", "i", "n">>],
   [tag |-> "div", kind |-> "prefix", attr |-> "role", val |-> <<"m", "a", "i", "n">>]}

\* xpath.rs DEFAULT_XPATHS.paragraphs
DEFAULT_PARAGRAPHS ==
  {[tag |-> "p", kind |-> "tag", attr |-> "", val |-> <<>>],
   [tag |-> "div", kind |-> "contains", attr |-> "class", val |-> <<"p", "a", "r", "a", "g", "r", "a", "p", "h">>],
   [tag |-> "div", kind |-> "contains", attr |-> "class", val |-> <<"t", "e", "x", "t", "-", "b", "l", "o", "c", "k">>],
   [tag |-> "div", kind |-> "contains", attr |-> "class", val |-> <<"p", "o", "s", "t", "-", "b", "l", "o", "c", "k">>],
   [tag |-> "div", kind |-> "contains", attr |-> "class", val |-> <<"e", "n", "t", "r", "y", "-", "b", "l", "o", "c", "k">>],
   [tag |-> "div", kind |-> "class", attr |-> "class", val |-> <<"p", "o", "s", "t", "-", "t", "e", "x", "t">>],
   [tag |-> "div", kind |-> "class", attr |-> "class", val |-> <<"t", "e", "x", "t">>],
   [tag |-> "div", kind |-> "contains", attr |-> "class", val |-> <<"a", "r", "t", "i", "c", "l", "e", "-", "t", "e", "x", "t">>],
   [tag |-> "section", kind |-> "contains", attr |-> "class", val |-> <<"p", "a", "r", "a", "g", "r", "a", "p", "h">>]}

DefaultMainContent(d, i) == \E alt \in DEFAULT_MAIN_CONTENT : MatchesAlt(d, i, alt)

DefaultParagraphs(d, i) == \E alt \in DEFAULT_PARAGRAPHS : MatchesAlt(d, i, alt)

\* div#mw-content-text
IsMwContentText(d, i) == d[i].tag = "div" /\ AttrIs(d, i, "id", <<"m", "w", "-", "c", "o", "n", "t", "e", "n", "t", "-", "t", "e", "x", "t">>)

\* div.mw-parser-output
IsMwParserOutput(d, i) == d[i].tag = "div" /\ HasClass(d, i, <<"m", "w", "-", "p", "a", "r", "s", "e", "r", "-", "o", "u", "t", "p", "u", "t">>)

\* below div#mw-content-text or below div.mw-parser-output
InWikiBody(d, i) == HasAncestor(d, i, IsMwContentText) \/ HasAncestor(d, i, IsMwParserOutput)

\* WIKI_XPATHS.main_content
WikiMainContent(d, i) ==
  /\ d[i].tag = "div"
  /\ \/ AttrIs(d, i, "id", <<"c", "o", "n", "t", "e", "n", "t">>)
     \/ AttrIs(d, i, "id", <<"b", "o", "d", "y", "C", "o", "n", "t", "e", "n", "t">>)
     \/ AttrIs(d, i, "id", <<"m", "w", "-", "c", "o", "n", "t", "e", "n", "t", "-", "t", "e", "x", "t">>)
     \/ HasClass(d, i, <<"m", "w", "-", "p", "a", "r", "s", "e", "r", "-", "o", "u", "t", "p", "u", "t">>)

\* WIKI_XPATHS.paragraphs
WikiParagraphs(d, i) ==
  \/ d[i].tag = "p" /\ InWikiBody(d, i)
  \/ /\ HasClass(d, i, <<"m", "w", "-", "e", "m", "p", "t", "y", "-", "e", "l", "t">>)
     /\ \E j \in Ancestors(d, i) : HasClass(d, j, <<"m", "w", "-", "p", "a", "r", "s", "e", "r", "-", "o", "u", "t", "p", "u", "t">>)

IsHeadingTag(d, i) == d[i].tag \in HeadingTags

\* WIKI_XPATHS.headings
WikiHeadings(d, i) == IsHeadingTag(d, i) /\ InWikiBody(d, i)

\* DEFAULT_XPATHS.lists
DefaultLists(d, i) == d[i].tag \in {"ul", "ol", "dl"}

\* WIKI_XPATHS.lists
WikiLists(d, i) == d[i].tag \in {"ul", "ol"} /\ InWikiBody(d, i)

\* DEFAULT_XPATHS.list_items
DefaultListItems(d, i) == d[i].tag \in {"li", "dt", "dd"}

\* WIKI_XPATHS.list_items
WikiListItems(d, i) == d[i].tag = "li" /\ InWikiBody(d, i)

IsTable(d, i) == d[i].tag = "table"

\* WIKI_XPATHS.tables
WikiTables(d, i) == d[i].tag = "table" /\ InWikiBody(d, i)

IsImg(d, i) == d[i].tag = "img"

\* WIKI_XPATHS.images
WikiImages(d, i) == d[i].tag = "img" /\ InWikiBody(d, i)

IsBody(d, i) == d[i].tag = "body"

\* meta[property='og:site_name']
IsSiteNameMeta(d, i) == d[i].tag = "meta" /\ AttrIs(d, i, "property", <<"o", "g", ":", "s", "i", "t", "e", "_", "n", "a", "m", "e">>)

\* link[rel='canonical']
IsCanonicalLink(d, i) == d[i].tag = "link" /\ AttrIs(d, i, "rel", <<"c", "a", "n", "o", "n", "i", "c", "a", "l">>)

\* is_wikipedia_page
is_wikipedia_page(d) ==
  \/ \E i \in Select(d, 0, IsSiteNameMeta) : AttrContains(d, i, "content", <<"W", "i", "k", "i", "p", "e", "d", "i", "a">>)
  \/ \E i \in Select(d, 0, IsCanonicalLink) : AttrContains(d, i, "href", <<"w", "i", "k", "i", "p", "e", "d", "i", "a", ".", "o", "r", "g">>)

\* should_skip_section
should_skip_section(heading_text) ==
  \E title \in WIKI_SKIP_SECTION_TITLES :
     Contains(ToLower(heading_text), ToLower(title))

\* is_before: the places of the two nodes in document.tree.nodes()
is_before(a, b) == a < b

\* find_preceding_heading_text: the place of the heading whose text is
\* returned, 0 for None.  From the element upwards, the first heading of an
\* ancestor's subtree that lies before the element; the walk ends at the
\* document node or after a section or article was searched
RECURSIVE find_preceding_heading(_, _, _)
find_preceding_heading(d, element, current) ==
  LET parent_ref == Parent(d, current)
  IN IF parent_ref = 0 THEN 0
     ELSE LET before == {h \in Select(d, parent_ref, IsHeadingTag) : is_before(h, element)}
          IN IF before # {} THEN SetMin(before)
             ELSE IF d[parent_ref].tag \in {"section", "article"} THEN 0
             ELSE find_preceding_heading(d, element, parent_ref)

\* the test of should_exclude on one element: its tag, the words of its
\* class, its id
ExcludedItself(d, i) ==
  \/ d[i].tag \in EXCLUDE_ELEMENTS
  \/ /\ HasAttr(d, i, "class")
     /\ \E class \in Words(d[i].attrs["class"]) :
          \E excl \in EXCLUDE_CLASSES : ToLower(class) = ToLower(excl)
  \/ /\ HasAttr(d, i, "id")
     /\ \E excl_id \in EXCLUDE_IDS : ToLower(d[i].attrs["id"]) = ToLower(excl_id)

\* should_exclude: the element or its parent element is excluded
should_exclude(d, i) ==
  \/ ExcludedItself(d, i)
  \/ Parent(d, i) # 0 /\ ExcludedItself(d, Parent(d, i))

\* the section skip of extract_with_xpath for a paragraph, list or table
SkippedBySection(d, is_wiki, i) ==
  /\ is_wiki
  /\ LET h == find_preceding_heading(d, i, i)
     IN h # 0 /\ should_skip_section(TextOf(d, h))

\* what the headings loop pushes for one heading
HeadingPart(d, is_wiki, i) ==
  LET text == TextOf(d, i)
  IN IF ~(is_wiki /\ should_skip_section(text)) /\ IsHeadingTag(d, i) /\ Trim(text) # <<>>
     THEN text \o <<"\n", "\n">>
     ELSE <<>>

\* what the paragraphs loop pushes for one element
ParagraphPart(d, is_wiki, i) ==
  LET trimmed == Trim(TextOf(d, i))
  IN IF SkippedBySection(d, is_wiki, i) \/ should_exclude(d, i) THEN <<>>
     ELSE IF trimmed # <<>> /\ ByteLen(trimmed) > 10 THEN trimmed \o <<"\n", "\n">>
     ELSE <<>>

\* what the list items loop pushes for one item
ListItemPart(d, i) ==
  LET trimmed == Trim(TextOf(d, i))
  IN IF should_exclude(d, i) \/ trimmed = <<>> THEN <<>>
     ELSE <<BULLET, " ">> \o trimmed \o <<"\n">>

\* what the lists loop pushes for one list
ListPart(d, is_wiki, i) ==
  IF SkippedBySection(d, is_wiki, i) \/ should_exclude(d, i) THEN <<>>
  ELSE LET items == Sorted(IF is_wiki THEN Select(d, i, WikiListItems)
                           ELSE Select(d, i, DefaultListItems))
       IN Concat([k \in 1..Len(items) |-> ListItemPart(d, items[k])]) \o <<"\n">>

\* what the tables loop pushes for one table
TablePart(d, is_wiki, i) ==
  LET trimmed == Trim(TextOf(d, i))
  IN IF SkippedBySection(d, is_wiki, i) \/ should_exclude(d, i) \/ trimmed = <<>> THEN <<>>
     ELSE <<"[", "T", "a", "b", "l", "e", ":", " ">> \o trimmed \o <<"]", "\n", "\n">>

AttrOr(d, i, a, default) == IF HasAttr(d, i, a) THEN d[i].attrs[a] ELSE default

\* what the images loop pushes for one image
ImagePart(d, i) ==
  LET alt == AttrOr(d, i, "alt", <<>>)
      src == AttrOr(d, i, "src", <<>>)
  IN IF should_exclude(d, i) \/ (alt = <<>> /\ src = <<>>) THEN <<>>
     ELSE <<"[", "I", "m", "a", "g", "e", ":", " ">> \o (IF alt # <<>> THEN alt ELSE src) \o <<"]", "\n", "\n">>

\* the main content elements of extract_with_xpath: the matches of the
\* variant's main_content selector, or else the body elements
XPathElements(d, is_wiki) ==
  LET found == IF is_wiki THEN Select(d, 0, WikiMainContent)
               ELSE Select(d, 0, DefaultMainContent)
  IN IF found = {} THEN Select(d, 0, IsBody) ELSE found

\* a content built in one pass over the selected elements in document
\* order
XPathContentDocumentOrder(d, config, is_wiki, main_element) ==
  LET headings == IF is_wiki THEN Select(d, main_element, WikiHeadings)
                  ELSE Select(d, main_element, IsHeadingTag)
      paragraphs == IF is_wiki THEN Select(d, main_element, WikiParagraphs)
                    ELSE Select(d, main_element, DefaultParagraphs)
      lists == IF ~config.include_tables THEN {}
               ELSE IF is_wiki THEN Select(d, main_element, WikiLists)
               ELSE Select(d, main_element, DefaultLists)
      tables == IF ~config.include_tables THEN {}
                ELSE IF is_wiki THEN Select(d, main_element, WikiTables)
                ELSE Select(d, main_element, IsTable)
      images == IF ~config.include_images THEN {}
                ELSE IF is_wiki THEN Select(d, main_element, WikiImages)
                ELSE Select(d, main_element, IsImg)
      all == Sorted(headings \union paragraphs \union lists \union tables \union images)
      content ==
        Concat([k \in 1..Len(all) |->
                  IF all[k] \in headings THEN HeadingPart(d, is_wiki, all[k])
                  ELSE IF all[k] \in paragraphs THEN ParagraphPart(d, is_wiki, all[k])
                  ELSE IF all[k] \in lists THEN ListPart(d, is_wiki, all[k])
                  ELSE IF all[k] \in tables THEN TablePart(d, is_wiki, all[k])
                  ELSE ImagePart(d, all[k])])
  IN CollapseNewlines(Trim(content))

\* the content extract_with_xpath builds below main_element, cleaned
XPathContent(d, config, is_wiki, main_element) ==
  LET headings == Sorted(IF is_wiki THEN Select(d, main_element, WikiHeadings)
                         ELSE Select(d, main_element, IsHeadingTag))
      paragraphs == Sorted(IF is_wiki THEN Select(d, main_element, WikiParagraphs)
                           ELSE Select(d, main_element, DefaultParagraphs))
      lists == Sorted(IF is_wiki THEN Select(d, main_element, WikiLists)
                      ELSE Select(d, main_element, DefaultLists))
      tables == Sorted(IF is_wiki THEN Select(d, main_element, WikiTables)
                       ELSE Select(d, main_element, IsTable))
      images == Sorted(IF is_wiki THEN Select(d, main_element, WikiImages)
                       ELSE Select(d, main_element, IsImg))
      content ==
        Concat([k \in 1..Len(headings) |-> HeadingPart(d, is_wiki, headings[k])])
        \o Concat([k \in 1..Len(paragraphs) |-> ParagraphPart(d, is_wiki, paragraphs[k])])
        \o (IF config.include_tables
            THEN Concat([k \in 1..Len(lists) |-> ListPart(d, is_wiki, lists[k])])
            ELSE <<>>)
        \o (IF config.include_tables
            THEN Concat([k \in 1..Len(tables) |-> TablePart(d, is_wiki, tables[k])])
            ELSE <<>>)
        \o (IF config.include_images
            THEN Concat([k \in 1..Len(images) |-> ImagePart(d, images[k])])
            ELSE <<>>)
  IN CollapseNewlines(Trim(content))

OkResult(content) == [ok |-> TRUE, content |-> content, error |-> "none"]

ErrResult(error) == [ok |-> FALSE, content |-> <<>>, error |-> error]

\* extract_with_xpath
extract_with_xpath(d, config) ==
  Let(is_wikipedia_page(d), LAMBDA is_wiki :
  Let(XPathElements(d, is_wiki), LAMBDA elements :
    IF elements = {} THEN ErrResult("No content elements found")
    ELSE Let(SetMin(elements), LAMBDA main_element :
         OkResult(XPathContent(d, config, is_wiki, main_element)))))

\* ------------------------------------------------------------------------
\* html.rs: clean_html and get_text_content
\* ------------------------------------------------------------------------

\* html.rs UNWANTED_ELEMENTS
UNWANTED_ELEMENTS ==
  {"script", "style", "noscript", "iframe", "footer", "nav", "aside",
   "form", "button", "svg", "head", "header", "meta", "link", "comment",
   "cite", "figcaption", "time", "small", "address"}

\* a clean_html that removes the first unwanted element with its subtree
\* and leaves the later ones
CleanFirstUnwanted(d, config) ==
  LET found == {i \in 1..Len(d) : d[i].tag \in UNWANTED_ELEMENTS}
  IN IF found = {} THEN d
     ELSE SubSeq(d, 1, SetMin(found) - 1)
          \o SubSeq(d, SubtreeEnd(d, SetMin(found)) + 1, Len(d))

\* clean_html: the loop over UNWANTED_ELEMENTS removes nothing and the
\* function returns document.clone()
clean_html(d, config) == d

IsP(d, i) == d[i].tag = "p"

IsA(d, i) == d[i].tag = "a"

HasUnwantedHint(d, i) ==
  has_class_hint(d, i, UNWANTED_CLASSES) \/ has_id_hint(d, i, UNWANTED_IDS)

\* the boilerplate markers that stop the paragraphs loop
IsBoilerplateMarker(p_text) ==
  \E m \in {<<"C", "a", "t", "c", "h", " ", "a", "l", "l", " ", "t", "h", "e">>, <<"D", "o", "w", "n", "l", "o", "a", "d">>, <<"F", "o", "l", "l", "o", "w", " ", "u", "s">>, <<"F", "i", "r", "s", "t", " ", "P", "u", "b", "l", "i", "s", "h", "e", "d">>,
            <<"R", "e", "a", "d", " ", "m", "o", "r", "e", " ", "a", "b", "o", "u", "t">>, <<"M", "o", "r", "e", " ", "o", "n", " ", "t", "h", "i", "s", " ", "t", "o", "p", "i", "c">>, <<"R", "e", "l", "a", "t", "e", "d", " ", "a", "r", "t", "i", "c", "l", "e", "s">>,
            <<"T", "a", "g", "s", ":">>, <<"C", "o", "p", "y", "r", "i", "g", "h", "t">>} : Contains(p_text, m)

\* a short paragraph that looks like metadata
IsMetadataParagraph(p_text) ==
  /\ ByteLen(p_text) < 30
  /\ \/ \E m \in {<<"P", "u", "b", "l", "i", "s", "h", "e", "d">>, <<"U", "p", "d", "a", "t", "e", "d">>, <<"B", "y", " ">>, <<"W", "r", "i", "t", "t", "e", "n", " ", "b", "y">>, <<"P", "o", "s", "t", "e", "d">>,
                  <<"S", "h", "a", "r", "e">>, <<"R", "e", "a", "d">>, <<"F", "o", "l", "l", "o", "w">>, <<"S", "u", "b", "s", "c", "r", "i", "b", "e">>, <<"A", "l", "s", "o", " ", "R", "e", "a", "d">>,
                  <<"A", "L", "S", "O", " ", "R", "E", "A", "D">>, <<"M", "o", "r", "e", " ", "L", "e", "s", "s">>, <<"B", "u", "s", "i", "n", "e", "s", "s", " ", "N", "e", "w", "s">>, <<"L", "a", "t", "e", "s", "t", " ", "N", "e", "w", "s">>} :
          Contains(p_text, m)
     \/ StartsWith(p_text, <<"W", "a", "t", "c", "h", ":">>)

\* a paragraph that links to other articles
IsLinkParagraph(p_text) ==
  \E m \in {<<"A", "l", "s", "o", " ", "R", "e", "a", "d", " ", "|">>, <<"R", "e", "a", "d", ":", " ">>, <<"W", "a", "t", "c", "h", ":", " ">>, <<"S", "e", "e", " ", "a", "l", "s", "o", ":", " ">>} : StartsWith(p_text, m)

\* the paragraphs loop of get_text_content from the k-th paragraph on, with
\* its flag skip_rest: the texts pushed
RECURSIVE CollectParagraphs(_, _, _, _)
CollectParagraphs(d, ps, k, skip_rest) ==
  IF k > Len(ps) THEN <<>>
  ELSE LET p_text == TextOf(d, ps[k])
       IN IF HasUnwantedHint(d, ps[k]) THEN CollectParagraphs(d, ps, k + 1, skip_rest)
          ELSE IF IsBoilerplateMarker(p_text) THEN CollectParagraphs(d, ps, k + 1, TRUE)
          ELSE IF skip_rest THEN CollectParagraphs(d, ps, k + 1, skip_rest)
          ELSE IF IsMetadataParagraph(p_text) \/ IsLinkParagraph(p_text)
               THEN CollectParagraphs(d, ps, k + 1, skip_rest)
          ELSE <<p_text>> \o CollectParagraphs(d, ps, k + 1, skip_rest)

\* the text nodes the fallback of get_text_content drops
IsMetadataText(t) ==
  LET trimmed == Trim(t)
  IN \/ trimmed = <<>>
     \/ \E m \in {<<"P", "u", "b", "l", "i", "s", "h", "e", "d">>, <<"U", "p", "d", "a", "t", "e", "d">>, <<"W", "r", "i", "t", "t", "e", "n", " ", "b", "y">>, <<"B", "y", " ">>, <<"S", "h", "a", "r", "e">>,
                  <<"P", "o", "s", "t", "e", "d">>, <<"F", "o", "l", "l", "o", "w", " ", "u", "s">>} : StartsWith(trimmed, m)
     \/ Contains(trimmed, <<COPYSIGN>>)
     \/ Contains(trimmed, <<"A", "l", "l", " ", "r", "i", "g", "h", "t", "s", " ", "r", "e", "s", "e", "r", "v", "e", "d">>)
     \/ trimmed = <<"R", "e", "a", "d", " ", "M", "o", "r", "e">>
     \/ trimmed = <<"A", "l", "s", "o", " ", "R", "e", "a", "d">>

\* the fallback of get_text_content: the text nodes kept, joined by " "
AllTextFallback(d, i) ==
  LET ts == TextNodes(d, i)
      texts == [k \in 1..Len(ts) |-> d[ts[k]].text]
  IN Join(SelectSeq(texts, LAMBDA t : ~IsMetadataText(t)), <<" ">>)

\* what the links loop of get_text_content pushes for one link
LinkPart(d, i) ==
  IF has_class_hint(d, i, {<<"n", "a", "v">>, <<"m", "e", "n", "u">>, <<"s", "o", "c", "i", "a", "l">>, <<"s", "h", "a", "r", "e">>, <<"t", "a", "g">>, <<"a", "u", "t", "h", "o", "r">>,
                           <<"b", "y", "l", "i", "n", "e">>, <<"t", "i", "m", "e", "s", "t", "a", "m", "p">>})
     \/ ~HasAttr(d, i, "href")
  THEN <<>>
  ELSE LET href == d[i].attrs["href"]
           link_text == TextOf(d, i)
       IN IF \E m \in {<<"/", "t", "a", "g", "/">>, <<"/", "t", "a", "g", "s", "/">>, <<"/", "t", "o", "p", "i", "c", "/">>, <<"/", "t", "o", "p", "i", "c", "s", "/">>, <<"/", "a", "u", "t", "h", "o", "r", "/">>,
                       <<"/", "a", "u", "t", "h", "o", "r", "s", "/">>, <<"/", "c", "a", "t", "e", "g", "o", "r", "y", "/">>, <<"/", "c", "a", "t", "e", "g", "o", "r", "i", "e", "s", "/">>, <<"f", "a", "c", "e", "b", "o", "o", "k", ".", "c", "o", "m">>,
                       <<"t", "w", "i", "t", "t", "e", "r", ".", "c", "o", "m">>, <<"l", "i", "n", "k", "e", "d", "i", "n", ".", "c", "o", "m">>, <<"i", "n", "s", "t", "a", "g", "r", "a", "m", ".", "c", "o", "m">>,
                       <<"y", "o", "u", "t", "u", "b", "e", ".", "c", "o", "m">>, <<"m", "a", "i", "l", "t", "o", ":">>} : Contains(href, m)
          THEN <<>>
          ELSE IF /\ link_text # <<>> /\ ByteLen(link_text) > 3
                  /\ ~Contains(link_text, <<"R", "e", "a", "d", " ", "m", "o", "r", "e">>)
                  /\ ~Contains(link_text, <<"M", "o", "r", "e">>)
                  /\ ~Contains(link_text, <<"A", "l", "s", "o">>)
               THEN <<" ", "(">> \o href \o <<")", " ">>
               ELSE <<>>

\* what the images loop of get_text_content pushes for one image
ImgPart(d, i) ==
  LET alt == AttrOr(d, i, "alt", <<>>)
      src == AttrOr(d, i, "src", <<>>)
  IN IF has_class_hint(d, i, {<<"i", "c", "o", "n">>, <<"l", "o", "g", "o">>, <<"s", "o", "c", "i", "a", "l">>, <<"a", "v", "a", "t", "a", "r">>, <<"a", "d">>}) THEN <<>>
     ELSE IF alt # <<>> THEN <<"[", "I", "m", "a", "g", "e", ":", " ">> \o alt \o <<"]", " ">>
     ELSE IF src # <<>> THEN <<"[", "I", "m", "a", "g", "e", ":", " ">> \o src \o <<"]", " ">>
     ELSE <<>>

\* text.replace(pats[k], "").replace(pats[k + 1], "") and so on
RECURSIVE RemoveFrom(_, _, _)
RemoveFrom(s, pats, k) ==
  IF k > Len(pats) THEN s
  ELSE Let(Replace(s, pats[k], <<>>), LAMBDA r : RemoveFrom(r, pats, k + 1))

RemoveAll(s, pats) == RemoveFrom(s, pats, 1)

\* the clean-up of the assembled text in get_text_content: t1 the text
\* without the article markers, t2 without URLs, t3 without path fragments,
\* t4 without empty parentheses, t5 with the lone parentheses replaced, t6
\* without the news markers
CleanText(text) ==
  Let(RemoveAll(text, <<<<"A", "l", "s", "o", " ", "R", "e", "a", "d">>, <<"R", "e", "a", "d", " ", "M", "o", "r", "e">>, <<"A", "L", "S", "O", " ", "R", "E", "A", "D", ":">>, <<"C", "a", "t", "c", "h", " ", "a", "l", "l", " ", "t", "h", "e">>,
                        <<"D", "o", "w", "n", "l", "o", "a", "d", " ", "T", "h", "e">>, <<"F", "i", "r", "s", "t", " ", "P", "u", "b", "l", "i", "s", "h", "e", "d", " ", ":">>, <<"P", "u", "b", "l", "i", "s", "h", "e", "d", " ", ":">>,
                        <<"P", "u", "b", "l", "i", "s", "h", "e", "d", " ", "o", "n">>, <<"L", "a", "s", "t", " ", "U", "p", "d", "a", "t", "e", "d", " ", ":">>>>), LAMBDA t1 :
  Let(StripUrls(t1), LAMBDA t2 :
  Let(StripPaths(t2), LAMBDA t3 :
  Let(StripEmptyParens(t3), LAMBDA t4 :
  Let(Replace(Replace(t4, <<" ", "(", " ">>, <<" ">>), <<" ", ")", " ">>, <<" ">>), LAMBDA t5 :
  Let(RemoveAll(t5, <<<<"B", "u", "s", "i", "n", "e", "s", "s", " ", "N", "e", "w", "s">>, <<"E", "c", "o", "n", "o", "m", "y", " ", "n", "e", "w", "s">>, <<"B", "r", "e", "a", "k", "i", "n", "g", " ", "N", "e", "w", "s", " ", "E", "v", "e", "n", "t", "s">>,
                      <<"L", "a", "t", "e", "s", "t", " ", "N", "e", "w", "s", " ", "U", "p", "d", "a", "t", "e", "s">>, <<"D", "a", "i", "l", "y", " ", "M", "a", "r", "k", "e", "t", " ", "U", "p", "d", "a", "t", "e", "s">>,
                      <<"M", "o", "r", "e", " ", "L", "e", "s", "s">>>>), LAMBDA t6 :
  Trim(CollapseBreaks(CollapseSpaces(t6)))))))))

\* get_text_content
get_text_content(d, element, config) ==
  IF HasUnwantedHint(d, element) THEN <<>>
  ELSE Let(Sorted(Select(d, element, IsP)), LAMBDA ps :
       Let(CollectParagraphs(d, ps, 1, FALSE), LAMBDA paragraphs :
       Let(IF paragraphs # <<>> THEN Join(paragraphs, <<"\n", "\n">>)
           ELSE AllTextFallback(d, element), LAMBDA base :
       Let(Sorted(Select(d, element, IsA)), LAMBDA links :
       Let(Sorted(Select(d, element, IsImg)), LAMBDA images :
       Let(base
           \o (IF config.include_links
               THEN Concat([k \in 1..Len(links) |-> LinkPart(d, links[k])])
               ELSE <<>>)
           \o (IF config.include_images
               THEN Concat([k \in 1..Len(images) |-> ImgPart(d, images[k])])
               ELSE <<>>), LAMBDA text :
       CleanText(text)))))))

\* ------------------------------------------------------------------------
\* extractors.rs: the strategies of extract_content
\* ------------------------------------------------------------------------

\* Option<String>
Some(text) == [some |-> TRUE, text |-> text]

None == [some |-> FALSE, text |-> <<>>]

\* a faulty acceptance test: the size floor is left out
AcceptedWithoutFloor(content, config) == content # <<>>

\* the acceptance test of the strategies and of extract_html:
\* !content.is_empty() && content.len() >= config.min_extracted_size
Accepted(content, config) ==
  content # <<>> /\ ByteLen(content) >= config.min_extracted_size

RECURSIVE SumSeq(_)
SumSeq(ns) == IF ns = <<>> THEN 0 ELSE Head(ns) + SumSeq(Tail(ns))

\* calculate_link_density as the pair <<text in links, total text>>; the
\* density is 0 when the total is 0
LinkLengths(d, i) ==
  LET links == Sorted(Select(d, i, IsA))
  IN <<SumSeq([k \in 1..Len(links) |-> ByteLen(TextOf(d, links[k]))]),
       ByteLen(TextOf(d, i))>>

\* LINK_DENSITY_THRESHOLD = 0.33 in hundredths
LINK_DENSITY_THRESHOLD == 33

\* calculate_link_density(element) > *LINK_DENSITY_THRESHOLD
LinkDensityAboveThreshold(d, i) ==
  LET ll == LinkLengths(d, i)
  IN ll[2] # 0 /\ ll[1] * 100 > LINK_DENSITY_THRESHOLD * ll[2]

\* TAG_WEIGHTS
TagWeight(tag) ==
  CASE tag = "div" -> 5 [] tag = "p" -> 15 [] tag = "h1" -> 10 [] tag = "h2" -> 8
    [] tag = "h3" -> 6 [] tag = "h4" -> 4 [] tag = "h5" -> 3 [] tag = "article" -> 25
    [] tag = "section" -> 15 [] tag = "main" -> 25 [] tag = "content" -> 20
    [] tag = "li" -> 1 [] tag = "td" -> 1 [] tag = "a" -> -5 [] tag = "script" -> -50
    [] tag = "style" -> -50 [] tag = "header" -> -25 [] tag = "footer" -> -50
    [] tag = "nav" -> -50 [] tag = "aside" -> -30 [] tag = "iframe" -> -40
    [] tag = "form" -> -20 [] tag = "button" -> -15 [] tag = "banner" -> -30
    [] tag = "social" -> -25 [] tag = "share" -> -25 [] tag = "comment" -> -25
    [] tag = "advertisement" -> -50 [] tag = "meta" -> -25 [] tag = "widget" -> -25
    [] OTHER -> 0

\* the hints score_node penalises, for the class and for the id alike
ScoreUnwantedHints ==
  {<<"n", "a", "v">>, <<"n", "a", "v", "b", "a", "r">>, <<"n", "a", "v", "i", "g", "a", "t", "i", "o", "n">>, <<"m", "e", "n", "u">>, <<"f", "o", "o", "t", "e", "r">>, <<"h", "e", "a", "d", "e", "r">>, <<"s", "i", "d", "e", "b", "a", "r">>,
   <<"a", "d", "v", "e", "r", "t", "i", "s", "e", "m", "e", "n", "t">>, <<"s", "o", "c", "i", "a", "l">>, <<"s", "h", "a", "r", "i", "n", "g">>, <<"c", "o", "m", "m", "e", "n", "t">>, <<"r", "e", "l", "a", "t", "e", "d">>, <<"r", "e", "c", "o", "m", "m", "e", "n", "d", "a", "t", "i", "o", "n">>}

SeqToSet(s) == {s[k] : k \in 1..Len(s)}

IsAny(d, i) == TRUE

IsContentElement(d, i) == d[i].tag \in {"p", "li"} \union HeadingTags

IsH1toH3(d, i) == d[i].tag \in {"h1", "h2", "h3"}

\* a score_node that subtracts the link penalty whatever the link density
ScoreWithPenaltyAlways(d, element, config) ==
  LET p_count == Cardinality(Select(d, element, IsP))
      all == Sorted(Select(d, element, IsAny))
      ll == LinkLengths(d, element)
  IN (ByteLen(TextOf(d, element)) \div 20)
     + (IF has_class_hint(d, element, SeqToSet(CONTENT_CLASSES)) THEN 75 ELSE 0)
     + (IF has_id_hint(d, element, SeqToSet(CONTENT_IDS)) THEN 75 ELSE 0)
     + p_count * 10
     + Cardinality(Select(d, element, IsContentElement)) * 5
     - (IF has_class_hint(d, element, ScoreUnwantedHints) THEN 50 ELSE 0)
     - (IF has_id_hint(d, element, ScoreUnwantedHints) THEN 50 ELSE 0)
     + SumSeq([k \in 1..Len(all) |-> TagWeight(d[all[k]].tag)])
     - (IF ll[2] # 0 THEN (ll[1] * 150) \div ll[2] ELSE 0)
     + (IF Select(d, element, IsH1toH3) # {} /\ p_count >= 2 THEN 30 ELSE 0)

\* score_node
score_node(d, element, config) ==
  LET p_count == Cardinality(Select(d, element, IsP))
      all == Sorted(Select(d, element, IsAny))
      ll == LinkLengths(d, element)
  IN (ByteLen(TextOf(d, element)) \div 20)
     + (IF has_class_hint(d, element, SeqToSet(CONTENT_CLASSES)) THEN 75 ELSE 0)
     + (IF has_id_hint(d, element, SeqToSet(CONTENT_IDS)) THEN 75 ELSE 0)
     + p_count * 10
     + Cardinality(Select(d, element, IsContentElement)) * 5
     - (IF has_class_hint(d, element, ScoreUnwantedHints) THEN 50 ELSE 0)
     - (IF has_id_hint(d, element, ScoreUnwantedHints) THEN 50 ELSE 0)
     + SumSeq([k \in 1..Len(all) |-> TagWeight(d[all[k]].tag)])
     - (IF LinkDensityAboveThreshold(d, element) THEN (ll[1] * 150) \div ll[2] ELSE 0)
     + (IF Select(d, element, IsH1toH3) # {} /\ p_count >= 2 THEN 30 ELSE 0)

\* #mw-content-text
HasIdMwContentText(d, i) == AttrIs(d, i, "id", <<"m", "w", "-", "c", "o", "n", "t", "e", "n", "t", "-", "t", "e", "x", "t">>)

\* .mw-parser-output
HasClassMwParserOutput(d, i) == HasClass(d, i, <<"m", "w", "-", "p", "a", "r", "s", "e", "r", "-", "o", "u", "t", "p", "u", "t">>)

\* #firstHeading
IsFirstHeading(d, i) == AttrIs(d, i, "id", <<"f", "i", "r", "s", "t", "H", "e", "a", "d", "i", "n", "g">>)

\* h1, h2, h3, h4, h5, h6, p, ul, ol
IsWikiSectionElement(d, i) == d[i].tag \in HeadingTags \union {"p", "ul", "ol"}

IsLi(d, i) == d[i].tag = "li"

\* the heading test of extract_wikipedia_content
IsWikiSkipHeading(element_text) ==
  \/ element_text \in {<<"R", "e", "f", "e", "r", "e", "n", "c", "e", "s">>, <<"E", "x", "t", "e", "r", "n", "a", "l", " ", "l", "i", "n", "k", "s">>, <<"S", "e", "e", " ", "a", "l", "s", "o">>,
                       <<"F", "u", "r", "t", "h", "e", "r", " ", "r", "e", "a", "d", "i", "n", "g">>, <<"N", "o", "t", "e", "s">>}
  \/ Contains(element_text, <<"B", "i", "b", "l", "i", "o", "g", "r", "a", "p", "h", "y">>)
  \/ Contains(element_text, <<"S", "o", "u", "r", "c", "e", "s">>)

\* what extract_wikipedia_content pushes for one li of a list
WikiListItem(d, li) ==
  LET li_text == Trim(TextOf(d, li))
  IN IF li_text = <<>> THEN <<>> ELSE <<BULLET, " ">> \o li_text \o <<"\n">>

\* a loop whose flag, once set by a skip heading, stays set
RECURSIVE WikiSectionsSticky(_, _, _, _)
WikiSectionsSticky(d, es, k, skip_section) ==
  IF k > Len(es) THEN <<>>
  ELSE LET e == es[k]
           element_text == Trim(TextOf(d, e))
       IN IF element_text = <<>> THEN WikiSectionsSticky(d, es, k + 1, skip_section)
          ELSE IF d[e].tag \in HeadingTags
               THEN (IF IsWikiSkipHeading(element_text) THEN <<>>
                     ELSE element_text \o <<"\n", "\n">>)
                    \o WikiSectionsSticky(d, es, k + 1,
                                          skip_section \/ IsWikiSkipHeading(element_text))
          ELSE IF skip_section THEN WikiSectionsSticky(d, es, k + 1, skip_section)
          ELSE IF d[e].tag = "p"
               THEN (IF /\ ByteLen(element_text) < 20
                        /\ \E m \in {<<"R", "e", "d", "i", "r", "e", "c", "t", "e", "d", " ", "f", "r", "o", "m">>, <<"J", "u", "m", "p", " ", "t", "o", " ", "n", "a", "v", "i", "g", "a", "t", "i", "o", "n">>,
                                     <<"F", "r", "o", "m", " ", "W", "i", "k", "i", "p", "e", "d", "i", "a">>} : Contains(element_text, m)
                     THEN <<>>
                     ELSE element_text \o <<"\n", "\n">>)
                    \o WikiSectionsSticky(d, es, k + 1, skip_section)
          ELSE LET lis == Sorted(Select(d, e, IsLi))
               IN Concat([n \in 1..Len(lis) |-> WikiListItem(d, lis[n])]) \o <<"\n">>
                  \o WikiSectionsSticky(d, es, k + 1, skip_section)

\* the loop of extract_wikipedia_content from the k-th element on, with its
\* flag skip_section: the text pushed
RECURSIVE WikiSections(_, _, _, _)
WikiSections(d, es, k, skip_section) ==
  IF k > Len(es) THEN <<>>
  ELSE LET e == es[k]
           element_text == Trim(TextOf(d, e))
       IN IF element_text = <<>> THEN WikiSections(d, es, k + 1, skip_section)
          ELSE IF d[e].tag \in HeadingTags
               THEN (IF IsWikiSkipHeading(element_text) THEN <<>>
                     ELSE element_text \o <<"\n", "\n">>)
                    \o WikiSections(d, es, k + 1, IsWikiSkipHeading(element_text))
          ELSE IF skip_section THEN WikiSections(d, es, k + 1, skip_section)
          ELSE IF d[e].tag = "p"
               THEN (IF /\ ByteLen(element_text) < 20
                        /\ \E m \in {<<"R", "e", "d", "i", "r", "e", "c", "t", "e", "d", " ", "f", "r", "o", "m">>, <<"J", "u", "m", "p", " ", "t", "o", " ", "n", "a", "v", "i", "g", "a", "t", "i", "o", "n">>,
                                     <<"F", "r", "o", "m", " ", "W", "i", "k", "i", "p", "e", "d", "i", "a">>} : Contains(element_text, m)
                     THEN <<>>
                     ELSE element_text \o <<"\n", "\n">>)
                    \o WikiSections(d, es, k + 1, skip_section)
          ELSE LET lis == Sorted(Select(d, e, IsLi))
               IN Concat([n \in 1..Len(lis) |-> WikiListItem(d, lis[n])]) \o <<"\n">>
                  \o WikiSections(d, es, k + 1, skip_section)

\* extract_wikipedia_content
extract_wikipedia_content(d, config) ==
  LET mains == Select(d, 0, HasIdMwContentText)
  IN IF mains = {} THEN None
     ELSE LET outputs == Select(d, SetMin(mains), HasClassMwParserOutput)
          IN IF outputs = {} THEN None
             ELSE Let(Select(d, 0, IsFirstHeading), LAMBDA titles :
                  Let(Sorted(Select(d, SetMin(outputs), IsWikiSectionElement)),
                      LAMBDA elements :
                  Let((IF titles = {} THEN <<>>
                       ELSE TextOf(d, SetMin(titles)) \o <<"\n", "\n">>)
                      \o WikiSections(d, elements, 1, FALSE), LAMBDA content :
                  IF content # <<>> THEN Some(Trim(content)) ELSE None)))

IsArticle(d, i) == d[i].tag = "article"

\* the loop over the articles in extract_content from the k-th one on, with
\* best_article_text and best_article_score: the final best_article_text
RECURSIVE BestArticle(_, _, _, _, _, _)
BestArticle(d, config, articles, k, best_article_text, best_article_score) ==
  IF k > Len(articles) THEN best_article_text
  ELSE Let(get_text_content(d, articles[k], config), LAMBDA text :
       Let(score_node(d, articles[k], config), LAMBDA score :
         IF Accepted(text, config) /\ score > best_article_score
         THEN BestArticle(d, config, articles, k + 1, text, score)
         ELSE BestArticle(d, config, articles, k + 1, best_article_text,
                          best_article_score)))

\* strategy 1 of extract_content: best_article_text after the loop
ArticleStrategy(d, config) ==
  Let(Sorted(Select(d, 0, IsArticle)), LAMBDA articles :
      BestArticle(d, config, articles, 1, <<>>, 0))

\* get_text_content of the first element whose attribute attr contains the
\* hint, "" when there is none
HintText(d, config, attr, hint) ==
  Let({i \in 1..Len(d) : IsElem(d, i) /\ AttrContains(d, i, attr, hint)}, LAMBDA found :
      IF found = {} THEN <<>> ELSE get_text_content(d, SetMin(found), config))

\* one loop of extract_by_hints, over the hints for the attribute attr: the
\* text of the first hint whose text is accepted
HintsFrom(d, config, attr, hints) ==
  Let({k \in 1..Len(hints) : Accepted(HintText(d, config, attr, hints[k]), config)},
      LAMBDA accepted :
      IF accepted = {} THEN None
      ELSE Some(HintText(d, config, attr, hints[SetMin(accepted)])))

\* extract_by_hints
extract_by_hints(d, config) ==
  Let(HintsFrom(d, config, "class", CONTENT_CLASSES), LAMBDA by_class :
      IF by_class.some THEN by_class
      ELSE HintsFrom(d, config, "id", CONTENT_IDS))

\* the hints find_content_candidates filters out, for the class and for
\* the id alike
CandidateUnwantedHints ==
  {<<"n", "a", "v">>, <<"n", "a", "v", "b", "a", "r">>, <<"n", "a", "v", "i", "g", "a", "t", "i", "o", "n">>, <<"m", "e", "n", "u">>, <<"f", "o", "o", "t", "e", "r">>, <<"h", "e", "a", "d", "e", "r">>, <<"s", "i", "d", "e", "b", "a", "r">>,
   <<"a", "d", "v", "e", "r", "t", "i", "s", "e", "m", "e", "n", "t">>, <<"a", "d">>, <<"s", "o", "c", "i", "a", "l">>, <<"s", "h", "a", "r", "e">>, <<"s", "h", "a", "r", "i", "n", "g">>, <<"c", "o", "m", "m", "e", "n", "t">>, <<"c", "o", "m", "m", "e", "n", "t", "s">>,
   <<"r", "e", "l", "a", "t", "e", "d">>, <<"r", "e", "c", "o", "m", "m", "e", "n", "d", "e", "d">>, <<"p", "r", "o", "m", "o", "t", "i", "o", "n">>, <<"p", "r", "o", "m", "o">>, <<"s", "u", "b", "s", "c", "r", "i", "b", "e">>, <<"s", "u", "b", "s", "c", "r", "i", "p", "t", "i", "o", "n">>,
   <<"d", "o", "w", "n", "l", "o", "a", "d">>, <<"c", "o", "p", "y", "r", "i", "g", "h", "t">>, <<"t", "a", "g", "s">>, <<"t", "a", "g", "-", "c", "l", "o", "u", "d">>, <<"b", "r", "e", "a", "d", "c", "r", "u", "m", "b">>, <<"p", "a", "g", "i", "n", "a", "t", "i", "o", "n">>,
   <<"p", "a", "g", "e", "r">>, <<"w", "i", "d", "g", "e", "t">>, <<"b", "a", "n", "n", "e", "r">>}

\* a rejection test that forgets the link density
RejectedByHintsOnly(d, i) ==
  \/ has_class_hint(d, i, CandidateUnwantedHints)
  \/ has_id_hint(d, i, CandidateUnwantedHints)

\* find_content_candidates: whether the element is skipped
CandidateRejected(d, i) ==
  \/ has_class_hint(d, i, CandidateUnwantedHints)
  \/ has_id_hint(d, i, CandidateUnwantedHints)
  \/ LinkDensityAboveThreshold(d, i)

\* find_content_candidates: the good content indicators
CandidateHighPriority(d, i) ==
  LET p_count == Cardinality(Select(d, i, IsP))
      text_length == ByteLen(TextOf(d, i))
  IN \/ text_length > 250 /\ p_count >= 2
     \/ text_length > 500
     \/ p_count >= 4
     \/ has_class_hint(d, i, SeqToSet(CONTENT_CLASSES))
     \/ has_id_hint(d, i, SeqToSet(CONTENT_IDS))

\* find_content_candidates: the list after the element was looked at
AddCandidate(d, candidates, tag, i) ==
  IF CandidateRejected(d, i) THEN candidates
  ELSE IF CandidateHighPriority(d, i)
       THEN IF tag \in {"article", "main"}
            THEN <<i>> \o candidates \o <<i>>
            ELSE candidates \o <<i>>
  ELSE IF ByteLen(TextOf(d, i)) > 100 THEN candidates \o <<i>>
  ELSE candidates

RECURSIVE AddCandidates(_, _, _, _, _)
AddCandidates(d, candidates, tag, elements, k) ==
  IF k > Len(elements) THEN candidates
  ELSE Let(AddCandidate(d, candidates, tag, elements[k]), LAMBDA added :
           AddCandidates(d, added, tag, elements, k + 1))

CandidateTags == <<"article", "main", "section", "div", "body">>

RECURSIVE CandidatesFrom(_, _, _)
CandidatesFrom(d, candidates, t) ==
  IF t > Len(CandidateTags) THEN candidates
  ELSE Let(Sorted({i \in 1..Len(d) : d[i].tag = CandidateTags[t]}), LAMBDA elements :
       Let(AddCandidates(d, candidates, CandidateTags[t], elements, 1), LAMBDA added :
           CandidatesFrom(d, added, t + 1)))

\* find_content_candidates
find_content_candidates(d) == CandidatesFrom(d, <<>>, 1)

\* a scan that replaces the best candidate also on an equal score
RECURSIVE BestCandidateLastTie(_, _, _, _, _, _)
BestCandidateLastTie(d, config, candidates, k, best_candidate, best_score) ==
  IF k > Len(candidates) THEN best_candidate
  ELSE Let(score_node(d, candidates[k], config), LAMBDA score :
         IF score >= best_score
         THEN BestCandidateLastTie(d, config, candidates, k + 1, candidates[k], score)
         ELSE BestCandidateLastTie(d, config, candidates, k + 1, best_candidate, best_score))

\* the scan of extract_by_density from the k-th candidate on
RECURSIVE BestCandidate(_, _, _, _, _, _)
BestCandidate(d, config, candidates, k, best_candidate, best_score) ==
  IF k > Len(candidates) THEN best_candidate
  ELSE Let(score_node(d, candidates[k], config), LAMBDA score :
         IF score > best_score
         THEN BestCandidate(d, config, candidates, k + 1, candidates[k], score)
         ELSE BestCandidate(d, config, candidates, k + 1, best_candidate, best_score))

\* extract_by_density
extract_by_density(d, config) ==
  Let(find_content_candidates(d), LAMBDA candidates :
    IF candidates = <<>> THEN None
    ELSE Let(score_node(d, candidates[1], config), LAMBDA first_score :
         Let(BestCandidate(d, config, candidates, 2, candidates[1], first_score),
             LAMBDA best :
         Let(get_text_content(d, best, config), LAMBDA text :
           IF text # <<>> THEN Some(text) ELSE None))))

\* strategy 4 of extract_content: whether the paragraph is kept
ParagraphQualifies(d, p) ==
  /\ ByteLen(TextOf(d, p)) >= 20
  /\ ~LinkDensityAboveThreshold(d, p)
  /\ ~(/\ Parent(d, p) # 0
       /\ has_class_hint(d, Parent(d, p), {<<"n", "a", "v">>, <<"m", "e", "n", "u">>, <<"f", "o", "o", "t", "e", "r">>, <<"h", "e", "a", "d", "e", "r">>,
                                           <<"s", "i", "d", "e", "b", "a", "r">>, <<"c", "o", "m", "m", "e", "n", "t">>}))

\* the text both paragraph strategies build: the text of each paragraph
\* that has some, each followed by a newline
ParagraphsText(d, config, ps) ==
  Concat([k \in 1..Len(ps) |->
            Let(get_text_content(d, ps[k], config), LAMBDA paragraph_text :
                IF Trim(paragraph_text) # <<>> THEN paragraph_text \o <<"\n">> ELSE <<>>)])

\* strategy 4 of extract_content, the filtered paragraphs: what it returns,
\* None when it falls through
FilteredParagraphs(d, config) ==
  Let(SelectSeq(Sorted(Select(d, 0, IsP)), LAMBDA p : ParagraphQualifies(d, p)),
      LAMBDA paragraphs :
    IF Len(paragraphs) < 3 THEN None
    ELSE Let(ParagraphsText(d, config, paragraphs), LAMBDA text :
           IF ByteLen(text) >= config.min_extracted_size THEN Some(Trim(text))
           ELSE None))

\* strategy 5 of extract_content, the last resort
LastResort(d, config) ==
  Let(Sorted(Select(d, 0, IsP)), LAMBDA ps : Trim(ParagraphsText(d, config, ps)))

\* ------------------------------------------------------------------------
\* readability.rs
\* ------------------------------------------------------------------------

POSITIVE_INDICATORS ==
  {<<"a", "r", "t", "i", "c", "l", "e">>, <<"b", "o", "d", "y">>, <<"c", "o", "n", "t", "e", "n", "t">>, <<"e", "n", "t", "r", "y">>, <<"m", "a", "i", "n">>, <<"p", "a", "g", "e">>, <<"p", "o", "s", "t">>,
   <<"t", "e", "x", "t">>, <<"b", "l", "o", "g">>, <<"s", "t", "o", "r", "y">>, <<"c", "o", "n", "t", "a", "i", "n", "e", "r">>, <<"r", "e", "a", "d", "a", "b", "l", "e">>}

NEGATIVE_INDICATORS ==
  {<<"a", "d", "v", "e", "r", "t">>, <<"a", "d", "-">>, <<"b", "a", "n", "n", "e", "r">>, <<"c", "o", "m", "b", "x">>, <<"c", "o", "m", "m", "e", "n", "t">>, <<"c", "o", "m", "m", "u", "n", "i", "t", "y">>, <<"d", "i", "s", "q", "u", "s">>,
   <<"e", "x", "t", "r", "a">>, <<"f", "o", "o", "t">>, <<"h", "e", "a", "d", "e", "r">>, <<"m", "e", "n", "u">>, <<"m", "e", "t", "a">>, <<"n", "a", "v">>, <<"p", "o", "p", "u", "p">>, <<"r", "e", "l", "a", "t", "e", "d">>,
   <<"r", "e", "m", "a", "r", "k">>, <<"r", "s", "s">>, <<"s", "h", "a", "r", "e">>, <<"s", "h", "o", "u", "t", "b", "o", "x">>, <<"s", "i", "d", "e", "b", "a", "r">>, <<"s", "p", "o", "n", "s", "o", "r">>, <<"s", "h", "o", "p", "p", "i", "n", "g">>,
   <<"w", "i", "d", "g", "e", "t">>, <<"h", "i", "d", "d", "e", "n">>, <<"j", "s">>, <<"m", "o", "d", "a", "l">>, <<"l", "o", "g", "i", "n">>}

\* the alternatives of the regex UNLIKELY_PATTERNS, matched without case
UNLIKELY_PATTERNS ==
  {<<"b", "a", "n", "n", "e", "r">>, <<"b", "r", "e", "a", "d", "c", "r", "u", "m", "b", "s">>, <<"c", "o", "m", "b", "x">>, <<"c", "o", "m", "m", "e", "n", "t">>, <<"c", "o", "m", "m", "u", "n", "i", "t", "y">>, <<"c", "o", "v", "e", "r", "-", "w", "r", "a", "p">>,
   <<"d", "i", "s", "q", "u", "s">>, <<"e", "x", "t", "r", "a">>, <<"f", "o", "o", "t">>, <<"h", "e", "a", "d", "e", "r">>, <<"l", "e", "g", "e", "n", "d", "s">>, <<"m", "e", "n", "u">>, <<"r", "e", "l", "a", "t", "e", "d">>,
   <<"r", "e", "m", "a", "r", "k">>, <<"r", "e", "p", "l", "i", "e", "s">>, <<"r", "s", "s">>, <<"s", "h", "o", "u", "t", "b", "o", "x">>, <<"s", "i", "d", "e", "b", "a", "r">>, <<"s", "k", "y", "s", "c", "r", "a", "p", "e", "r">>, <<"s", "o", "c", "i", "a", "l">>,
   <<"s", "p", "o", "n", "s", "o", "r">>, <<"s", "u", "p", "p", "l", "e", "m", "e", "n", "t", "a", "l">>, <<"a", "d", "-", "b", "r", "e", "a", "k">>, <<"a", "g", "e", "g", "a", "t", "e">>, <<"p", "a", "g", "i", "n", "a", "t", "i", "o", "n">>, <<"p", "a", "g", "e", "r">>,
   <<"p", "o", "p", "u", "p">>, <<"y", "o", "m", "-", "r", "e", "m", "o", "t", "e">>}

\* the alternatives of the regex LIKELY_PATTERNS, matched without case;
\* pag(?:e|ination) is page or pagination
LIKELY_PATTERNS ==
  {<<"a", "r", "t", "i", "c", "l", "e">>, <<"b", "o", "d", "y">>, <<"c", "o", "n", "t", "e", "n", "t">>, <<"e", "n", "t", "r", "y">>, <<"m", "a", "i", "n">>, <<"n", "e", "w", "s">>, <<"p", "a", "g", "e">>,
   <<"p", "a", "g", "i", "n", "a", "t", "i", "o", "n">>, <<"p", "o", "s", "t">>, <<"t", "e", "x", "t">>, <<"b", "l", "o", "g">>, <<"s", "t", "o", "r", "y">>}

\* Regex::is_match for a regex that is a list of literal alternatives under (?i)
IsMatch(patterns, s) == \E p \in patterns : Contains(ToLower(s), ToLower(p))

\* prepare_document: whether the element goes into nodes_to_remove
IsUnlikelyCandidate(d, i) ==
  /\ IsElem(d, i)
  /\ d[i].tag \notin {"html", "body", "article", "section", "main"}
  /\ \/ /\ HasAttr(d, i, "class")
        /\ IsMatch(UNLIKELY_PATTERNS, d[i].attrs["class"])
        /\ ~IsMatch(LIKELY_PATTERNS, d[i].attrs["class"])
     \/ /\ HasAttr(d, i, "id")
        /\ IsMatch(UNLIKELY_PATTERNS, d[i].attrs["id"])
        /\ ~IsMatch(LIKELY_PATTERNS, d[i].attrs["id"])

\* prepare_document: the document without the subtrees of the nodes removed
prepare_document(d) ==
  Let({i \in 1..Len(d) : IsUnlikelyCandidate(d, i)}, LAMBDA nodes_to_remove :
      KeepAt(d, {i \in 1..Len(d) :
                   i \notin nodes_to_remove
                   /\ \A j \in nodes_to_remove : ~(j < i /\ i <= SubtreeEnd(d, j))}))

\* readability.rs score_node without its last step, the factor
\* (1 - link_density): 1.0, the bonus of the tag, 25 for each indicator
ReadabilityBase(d, i) ==
  1 + (CASE d[i].tag = "div" -> 5
         [] d[i].tag \in {"article", "section", "main"} -> 10
         [] d[i].tag \in {"p", "pre", "td", "blockquote"} -> 3
         [] OTHER -> 0)
    + (IF has_class_hint(d, i, POSITIVE_INDICATORS) THEN 25 ELSE 0)
    + (IF has_id_hint(d, i, POSITIVE_INDICATORS) THEN 25 ELSE 0)
    - (IF has_class_hint(d, i, NEGATIVE_INDICATORS) THEN 25 ELSE 0)
    - (IF has_id_hint(d, i, NEGATIVE_INDICATORS) THEN 25 ELSE 0)

\* readability.rs score_node as the fraction <<numerator, denominator>>:
\* (base + text_length / 100) * (1 - link_density), over 100 * text_length
\* (over 100 when there is no text)
ReadabilityScore(d, i) ==
  LET ll == LinkLengths(d, i)
      text_length == ll[2]
  IN IF ~IsElem(d, i) THEN <<0, 1>>
     ELSE IF text_length = 0 THEN <<ReadabilityBase(d, i) * 100, 100>>
     ELSE <<(ReadabilityBase(d, i) * 100 + text_length) * (text_length - ll[1]),
            100 * text_length>>

\* a > b for two fractions with positive denominators, by their integer
\* parts and then the reciprocals of their fractional parts
RECURSIVE FracGreater(_, _)
FracGreater(a, b) ==
  IF a[1] \div a[2] # b[1] \div b[2] THEN a[1] \div a[2] > b[1] \div b[2]
  ELSE IF a[1] % a[2] = 0 THEN FALSE
  ELSE IF b[1] % b[2] = 0 THEN TRUE
  ELSE FracGreater(<<b[2], b[1] % b[2]>>, <<a[2], a[1] % a[2]>>)

\* the candidates loop of extract_with_readability: the parents of the
\* paragraphs of at least 25 bytes, each once, in the order of their first
\* paragraph
RECURSIVE ReadabilityCandidates(_, _, _, _)
ReadabilityCandidates(d, ps, k, candidates) ==
  IF k > Len(ps) THEN candidates
  ELSE Let(Parent(d, ps[k]), LAMBDA parent :
         IF ByteLen(TextOf(d, ps[k])) < 25 \/ parent = 0
            \/ \E n \in 1..Len(candidates) : candidates[n] = parent
         THEN ReadabilityCandidates(d, ps, k + 1, candidates)
         ELSE Let(candidates \o <<parent>>, LAMBDA added :
                  ReadabilityCandidates(d, ps, k + 1, added)))

\* candidates.sort_by(score, descending)[0]: the sort is stable, so the
\* first of the candidates that no other one beats
TopCandidate(d, candidates) ==
  candidates[SetMin({n \in 1..Len(candidates) :
                       \A m \in 1..Len(candidates) :
                          ~FracGreater(ReadabilityScore(d, candidates[m]),
                                       ReadabilityScore(d, candidates[n]))})]

\* extract_with_readability
extract_with_readability(d, config) ==
  Let(prepare_document(clean_html(d, config)), LAMBDA working_document :
  Let(Sorted(Select(working_document, 0, IsP)), LAMBDA ps :
  Let(ReadabilityCandidates(working_document, ps, 1, <<>>), LAMBDA candidates :
    IF candidates = <<>>
    THEN LET bodies == Select(working_document, 0, IsBody)
         IN IF bodies = {} THEN ErrResult("No body element found")
            ELSE OkResult(get_text_content(working_document, SetMin(bodies), config))
    ELSE Let(TopCandidate(working_document, candidates), LAMBDA top :
             OkResult(get_text_content(working_document, top, config))))))

\* ------------------------------------------------------------------------
\* lib.rs: extract_html as a state machine.  pc is the place in
\* extract_html and, inside its call of extract_content, in extract_content.
\* ------------------------------------------------------------------------

VARIABLES
  doc,      \* the parsed document
  config,   \* the ExtractionConfig
  pc,       \* the next step
  content,  \* lib.rs: content, the return value of extract_content
  result,   \* the return value of extract_html, with result.content
  tried,    \* the strategies run so far, each with the text it produced
  source    \* the strategy whose text is in result.content

vars == <<doc, config, pc, content, result, tried, source>>

Pending == [status |-> "pending", content |-> <<>>, error |-> "none"]

\* one strategy has run and produced text
Ran(strategy, text) == Append(tried, [strategy |-> strategy, output |-> text])

\* lib.rs 162-168: the selector engine first; its error leaves by "?"
XPath ==
  /\ pc = "xpath"
  /\ \E r \in {extract_with_xpath(doc, config)} :
        IF ~r.ok
        THEN /\ result' = [status |-> "Err", content |-> <<>>, error |-> r.error]
             /\ pc' = "done"
             /\ UNCHANGED <<tried, source>>
        ELSE /\ tried' = Ran("xpath", r.content)
             /\ IF Accepted(r.content, config)
                THEN /\ result' = [status |-> "Ok", content |-> r.content, error |-> "none"]
                     /\ source' = "xpath"
                     /\ pc' = "done"
                ELSE /\ pc' = "wikipedia"
                     /\ UNCHANGED <<result, source>>
  /\ UNCHANGED <<doc, config, content>>

\* extract_content returns text
Return(strategy, text) ==
  /\ content' = text
  /\ source' = strategy
  /\ pc' = "returned"

\* extractors.rs 171-180: clean_html, then the Wikipedia strategy
Wikipedia ==
  /\ pc = "wikipedia"
  /\ \E r \in {extract_wikipedia_content(clean_html(doc, config), config)} :
        /\ tried' = Ran("wikipedia", r.text)
        /\ IF r.some /\ Accepted(r.text, config)
           THEN Return("wikipedia", r.text)
           ELSE pc' = "article" /\ UNCHANGED <<content, source>>
  /\ UNCHANGED <<doc, config, result>>

\* extractors.rs 184-206: the best article
Article ==
  /\ pc = "article"
  /\ \E text \in {ArticleStrategy(clean_html(doc, config), config)} :
        /\ tried' = Ran("article", text)
        /\ IF text # <<>>
           THEN Return("article", text)
           ELSE pc' = "hints" /\ UNCHANGED <<content, source>>
  /\ UNCHANGED <<doc, config, result>>

\* extractors.rs 208-214: the content hints
Hints ==
  /\ pc = "hints"
  /\ \E r \in {extract_by_hints(clean_html(doc, config), config)} :
        /\ tried' = Ran("hints", r.text)
        /\ IF r.some /\ Accepted(r.text, config)
           THEN Return("hints", r.text)
           ELSE pc' = "density" /\ UNCHANGED <<content, source>>
  /\ UNCHANGED <<doc, config, result>>

\* a faulty density step: its text is returned without the acceptance test
DensityWithoutTest ==
  /\ pc = "density"
  /\ \E r \in {extract_by_density(clean_html(doc, config), config)} :
        /\ tried' = Ran("density", r.text)
        /\ IF r.some
           THEN Return("density", r.text)
           ELSE pc' = "paragraphs" /\ UNCHANGED <<content, source>>
  /\ UNCHANGED <<doc, config, result>>

\* extractors.rs 216-222: the content density
Density ==
  /\ pc = "density"
  /\ \E r \in {extract_by_density(clean_html(doc, config), config)} :
        /\ tried' = Ran("density", r.text)
        /\ IF r.some /\ Accepted(r.text, config)
           THEN Return("density", r.text)
           ELSE pc' = "paragraphs" /\ UNCHANGED <<content, source>>
  /\ UNCHANGED <<doc, config, result>>

\* extractors.rs 224-268: the filtered paragraphs
Paragraphs ==
  /\ pc = "paragraphs"
  /\ \E r \in {FilteredParagraphs(clean_html(doc, config), config)} :
        /\ tried' = Ran("paragraphs", r.text)
        /\ IF r.some
           THEN Return("paragraphs", r.text)
           ELSE pc' = "last_resort" /\ UNCHANGED <<content, source>>
  /\ UNCHANGED <<doc, config, result>>

\* a faulty last resort: text under the size floor is an error of
\* extract_content
LastResortStepWithFloor ==
  /\ pc = "last_resort"
  /\ \E text \in {LastResort(clean_html(doc, config), config)} :
        /\ tried' = Ran("last_resort", text)
        /\ IF Accepted(text, config)
           THEN /\ Return("last_resort", text)
                /\ UNCHANGED result
           ELSE /\ result' = [status |-> "Err", content |-> <<>>,
                              error |-> "Extracted content too short"]
                /\ pc' = "done"
                /\ UNCHANGED <<content, source>>
  /\ UNCHANGED <<doc, config>>

\* extractors.rs 270-282: the last resort always returns
LastResortStep ==
  /\ pc = "last_resort"
  /\ \E text \in {LastResort(clean_html(doc, config), config)} :
        /\ tried' = Ran("last_resort", text)
        /\ Return("last_resort", text)
  /\ UNCHANGED <<doc, config, result>>

\* a faulty step after extract_content: the readability fallback is tried
\* whatever extract_content returned
FallbackAlways ==
  /\ pc = "returned"
  /\ pc' = "readability"
  /\ UNCHANGED <<doc, config, content, result, tried, source>>

\* lib.rs 173, 182-184: the content of extract_content is kept, or the
\* readability fallback is tried
Fallback ==
  /\ pc = "returned"
  /\ IF content = <<>> \/ ByteLen(content) < config.min_extracted_size
     THEN pc' = "readability" /\ UNCHANGED result
     ELSE /\ result' = [result EXCEPT !.content = content]
          /\ pc' = "gate"
  /\ UNCHANGED <<doc, config, content, tried, source>>

\* lib.rs 175-181: the readability fallback; its error leaves by "?"
Readability ==
  /\ pc = "readability"
  /\ \E r \in {extract_with_readability(doc, config)} :
        IF ~r.ok
        THEN /\ result' = [status |-> "Err", content |-> <<>>, error |-> r.error]
             /\ pc' = "done"
             /\ UNCHANGED <<tried, source>>
        ELSE /\ tried' = Ran("readability", r.content)
             /\ pc' = "gate"
             /\ IF Accepted(r.content, config)
                THEN /\ result' = [result EXCEPT !.content = r.content]
                     /\ source' = "readability"
                ELSE /\ result' = [result EXCEPT !.content = content]
                     /\ UNCHANGED source
  /\ UNCHANGED <<doc, config, content>>

\* a faulty last step: the size floor on result.content is left out
GateWithoutFloor ==
  /\ pc = "gate"
  /\ result' = [result EXCEPT !.status = "Ok"]
  /\ pc' = "done"
  /\ UNCHANGED <<doc, config, content, tried, source>>

\* lib.rs 186-193: the size floor on result.content
Gate ==
  /\ pc = "gate"
  /\ IF result.content = <<>> \/ ByteLen(result.content) < config.min_extracted_size
     THEN result' = [result EXCEPT !.status = "Err",
                                   !.error = "Extracted content too short"]
     ELSE result' = [result EXCEPT !.status = "Ok"]
  /\ pc' = "done"
  /\ UNCHANGED <<doc, config, content, tried, source>>

Next ==
  \/ XPath
  \/ Wikipedia
  \/ Article
  \/ Hints
  \/ Density
  \/ Paragraphs
  \/ LastResortStep
  \/ Fallback
  \/ Readability
  \/ Gate

\* ------------------------------------------------------------------------
\* The inputs: documents as the parser builds them, and configurations
\* ------------------------------------------------------------------------

\* most paragraphs of one document
MaxParagraphs == 2

\* most sections below div.mw-parser-output
MaxSections == 2

\* most paragraphs with an unwanted class
MaxUnwanted == 3

\* n times the character c
Filler(c, n) == <<>> \o [i \in 1..n |-> c]

Digit(k) == <<"0", "1", "2", "3", "4", "5", "6", "7", "8", "9">>[k + 1]

\* <html><head> with the meta and link elements of one kind of page
HeadOf(kind) ==
  <<El("html", 0, NoAttrs), El("head", 1, NoAttrs)>>
  \o (CASE kind = "plain" -> <<>>
        [] kind = "wikipedia" ->
             <<El("meta", 2, [property |-> <<"o", "g", ":", "s", "i", "t", "e", "_", "n", "a", "m", "e">>, content |-> <<"W", "i", "k", "i", "p", "e", "d", "i", "a">>])>>
        [] kind = "not_wikipedia" ->
             <<El("meta", 2, [property |-> <<"o", "g", ":", "s", "i", "t", "e", "_", "n", "a", "m", "e">>, content |-> <<"N", "o", "t", " ", "W", "i", "k", "i", "p", "e", "d", "i", "a">>])>>
        [] kind = "other_site" ->
             <<El("meta", 2, [property |-> <<"o", "g", ":", "s", "i", "t", "e", "_", "n", "a", "m", "e">>, content |-> <<"E", "x", "a", "m", "p", "l", "e", " ", "N", "e", "w", "s">>])>>
        [] kind = "canonical_wikipedia" ->
             <<El("link", 2, [rel |-> <<"c", "a", "n", "o", "n", "i", "c", "a", "l">>,
                              href |-> <<"h", "t", "t", "p", "s", ":", "/", "/", "e", "n", ".", "w", "i", "k", "i", "p", "e", "d", "i", "a", ".", "o", "r", "g", "/", "w", "i", "k", "i", "/", "R", "u", "s", "t">>])>>
        [] kind = "canonical_mention" ->
             <<El("link", 2, [rel |-> <<"c", "a", "n", "o", "n", "i", "c", "a", "l">>,
                              href |-> <<"h", "t", "t", "p", "s", ":", "/", "/", "e", "x", "a", "m", "p", "l", "e", ".", "c", "o", "m", "/", "a", "?", "r", "e", "f", "=", "w", "i", "k", "i", "p", "e", "d", "i", "a", ".", "o", "r", "g">>])>>
        [] kind = "canonical_other" ->
             <<El("link", 2, [rel |-> <<"c", "a", "n", "o", "n", "i", "c", "a", "l">>,
                              href |-> <<"h", "t", "t", "p", "s", ":", "/", "/", "e", "x", "a", "m", "p", "l", "e", ".", "c", "o", "m", "/", "a", "r", "t", "i", "c", "l", "e">>])>>)

HeadKinds ==
  {"plain", "wikipedia", "not_wikipedia", "other_site", "canonical_wikipedia",
   "canonical_mention", "canonical_other"}

\* <body> with the blocks as its children
BodyOf(attrs, blocks) == <<El("body", 1, attrs)>> \o Shift(blocks, 2)

\* an element with the blocks as its children
Wrap(tag, attrs, blocks) == <<El(tag, 0, attrs)>> \o Shift(blocks, 1)

\* an element with one text node
Leaf(tag, attrs, text) == <<El(tag, 0, attrs), Tx(1, text)>>

\* a document without body: <html><head></head><frameset><frame></frameset></html>
FramesetDocument(kind) ==
  HeadOf(kind) \o <<El("frameset", 1, NoAttrs), El("frame", 2, NoAttrs)>>

\* <html><head></head><body></body></html>
EmptyDocument == HeadOf("plain") \o BodyOf(NoAttrs, <<>>)

LINK_URL == <<"h", "t", "t", "p", "s", ":", "/", "/", "e", "x", "a", "m", "p", "l", "e", ".", "c", "o", "m">>

LINK_TEXT == <<"a", " ", "l", "i", "n", "k">>

HEADING_TEXT == <<"T", "e", "s", "t", " ", "H", "e", "a", "d", "i", "n", "g">>

FOOTER_TEXT == <<"C", "o", "p", "y", "r", "i", "g", "h", "t", " ", "2", "0", "2", "3">>

LINK_LEAD == <<"T", "h", "i", "s", " ", "i", "s", " ", "a", " ", "t", "e", "s", "t", " ", "p", "a", "r", "a", "g", "r", "a", "p", "h", " ", "w", "i", "t", "h", " ">>

\* <p>This is a test paragraph with <a href="https://example.com">a link</a>.</p>
LinkParagraph ==
  Wrap("p", NoAttrs,
       <<Tx(0, LINK_LEAD)>>
       \o Leaf("a", [href |-> LINK_URL], LINK_TEXT)
       \o <<Tx(0, <<".">>)>>)

\* the text of the k-th plain paragraph of a document
ParagraphText(k) == <<"T", "h", "i", "s", " ", "i", "s", " ", "p", "a", "r", "a", "g", "r", "a", "p", "h", " ">> \o <<Digit(k)>> \o <<" ", "w", "i", "t", "h", " ", "m", "o", "r", "e", " ", "c", "o", "n", "t", "e", "n", "t", ".">>

PlainParagraphs(n) == Concat([k \in 1..n |-> Leaf("p", NoAttrs, ParagraphText(k))])

\* <article><h1>Test Heading</h1><p>... a link ...</p><p>...</p>...</article>
ArticleBlock(n) ==
  Wrap("article", NoAttrs,
       Leaf("h1", NoAttrs, HEADING_TEXT) \o LinkParagraph \o PlainParagraphs(n))

\* <footer> with its text in a paragraph, in a heading or in a paragraph
\* one level deeper
FooterBlock(kind) ==
  Wrap("footer", NoAttrs,
       CASE kind = "paragraph" -> Leaf("p", NoAttrs, FOOTER_TEXT)
         [] kind = "heading" -> Leaf("h3", NoAttrs, FOOTER_TEXT)
         [] kind = "nested" -> Wrap("div", NoAttrs, Leaf("p", NoAttrs, FOOTER_TEXT)))

FooterKinds == {"paragraph", "heading", "nested"}

\* <header><nav><ul><li><a href="#">Home</a></li></ul></nav></header>
HeaderBlock ==
  Wrap("header", NoAttrs,
    Wrap("nav", NoAttrs,
      Wrap("ul", NoAttrs,
        Wrap("li", NoAttrs, Leaf("a", [href |-> <<"#">>], <<"H", "o", "m", "e">>)))))

\* the documents with an article: the article below body or below main,
\* the footer after it, below body or inside main
ArticleDocuments ==
  {HeadOf(h) \o BodyOf(NoAttrs,
       HeaderBlock
       \o (CASE place = "article_in_body" -> ArticleBlock(n) \o FooterBlock(f)
             [] place = "main_then_footer" ->
                  Wrap("main", NoAttrs, ArticleBlock(n)) \o FooterBlock(f)
             [] place = "footer_in_main" ->
                  Wrap("main", NoAttrs, ArticleBlock(n) \o FooterBlock(f)))) :
     h \in {"plain", "wikipedia"}, n \in 1..MaxParagraphs, f \in FooterKinds,
     place \in {"article_in_body", "main_then_footer", "footer_in_main"}}

VALID_PARAGRAPH == Filler("v", 300)

UNWANTED_TEXT(k) == <<"S", "p", "o", "n", "s", "o", "r", "e", "d", " ", "o", "f", "f", "e", "r", " ", "n", "u", "m", "b", "e", "r", " ">> \o <<Digit(k)>>

\* class attributes of the unwanted paragraphs
UnwantedClassSamples == {<<"a", "d">>, <<"s", "i", "d", "e", "b", "a", "r">>, <<"n", "a", "v", "i", "g", "a", "t", "i", "o", "n">>, <<"a", "d", "v", "a", "n", "c", "e", "d">>}

\* the documents with n paragraphs of an unwanted class and one valid
\* paragraph of 300 characters after them
UnwantedDocuments ==
  {HeadOf("plain") \o BodyOf(NoAttrs,
       Concat([k \in 1..n |-> Leaf("p", [class |-> c], UNWANTED_TEXT(k))])
       \o Leaf("p", NoAttrs, VALID_PARAGRAPH)) :
     n \in 1..MaxUnwanted, c \in UnwantedClassSamples}

\* the text of the section at place k below div.mw-parser-output
BlockText(k) == <<"S", "e", "c", "t", "i", "o", "n", " ", "t", "e", "x", "t", " ", "n", "u", "m", "b", "e", "r", " ">> \o <<Digit(k)>> \o <<" ", "o", "f", " ", "t", "h", "e", " ", "p", "a", "g", "e", ".">>

\* the section at place k of a Wikipedia page: its heading, then one
\* paragraph, list or table
WikiSection(kind, k) ==
  Leaf("h2", NoAttrs, IF kind[1] = "references" THEN <<"R", "e", "f", "e", "r", "e", "n", "c", "e", "s">> ELSE <<"H", "i", "s", "t", "o", "r", "y">>)
  \o (CASE kind[2] = "paragraph" -> Leaf("p", NoAttrs, BlockText(k))
         [] kind[2] = "list" -> Wrap("ul", NoAttrs, Leaf("li", NoAttrs, BlockText(k)))
         [] kind[2] = "table" ->
              Wrap("table", NoAttrs,
                   Wrap("tr", NoAttrs, Leaf("td", NoAttrs, BlockText(k)))))

WikiSectionKinds == {"history", "references"} \X {"paragraph", "list", "table"}

\* the sequences of at most n section kinds
RECURSIVE SectionSeqs(_)
SectionSeqs(n) ==
  IF n = 0 THEN {<<>>}
  ELSE LET shorter == SectionSeqs(n - 1)
       IN shorter \union {Append(s, b) : s \in shorter, b \in WikiSectionKinds}

LEAD_TEXT == <<"T", "h", "i", "s", " ", "i", "s", " ", "t", "h", "e", " ", "l", "e", "a", "d", " ", "p", "a", "r", "a", "g", "r", "a", "p", "h", " ", "o", "f", " ", "t", "h", "e", " ", "p", "a", "g", "e", ".">>

\* a Wikipedia page: div#content, the title, div#mw-content-text and
\* div.mw-parser-output with the lead paragraph and the sections
WikiDocument(h, kinds) ==
  HeadOf(h) \o BodyOf(NoAttrs,
    Wrap("div", [id |-> <<"c", "o", "n", "t", "e", "n", "t">>],
      Leaf("h1", [id |-> <<"f", "i", "r", "s", "t", "H", "e", "a", "d", "i", "n", "g">>], <<"M", "a", "i", "n", " ", "H", "e", "a", "d", "i", "n", "g">>)
      \o Wrap("div", [id |-> <<"m", "w", "-", "c", "o", "n", "t", "e", "n", "t", "-", "t", "e", "x", "t">>],
           Wrap("div", [class |-> <<"m", "w", "-", "p", "a", "r", "s", "e", "r", "-", "o", "u", "t", "p", "u", "t">>],
             Leaf("p", NoAttrs, LEAD_TEXT)
             \o Concat([k \in 1..Len(kinds) |-> WikiSection(kinds[k], k)])))))

WikiDocuments == {WikiDocument("wikipedia", kinds) : kinds \in SectionSeqs(MaxSections)}

CELL_TEXT == <<"C", "e", "l", "l", " ", "t", "e", "x", "t", " ", "o", "f", " ", "t", "h", "e", " ", "t", "a", "b", "l", "e", ",", " ">> \o Filler("c", 120)

\* <table><tbody><tr><td> with the blocks in the cell
TableOf(blocks) ==
  Wrap("table", NoAttrs, Wrap("tbody", NoAttrs, Wrap("tr", NoAttrs, Wrap("td", NoAttrs, blocks))))

\* the documents with a table: the cell holds bare text or a paragraph, and
\* the body may hold a paragraph before the table
TableDocuments ==
  {HeadOf("plain") \o BodyOf(NoAttrs,
       (IF lead THEN Leaf("p", NoAttrs, ParagraphText(1)) ELSE <<>>)
       \o TableOf(IF cell = "text" THEN <<Tx(0, CELL_TEXT)>>
                  ELSE Leaf("p", NoAttrs, CELL_TEXT))) :
     lead \in BOOLEAN, cell \in {"text", "paragraph"}}

IMAGE_ALT == <<"A", " ", "d", "i", "a", "g", "r", "a", "m">>

\* an article with one paragraph and one image
ImageDocument ==
  HeadOf("plain")
  \o BodyOf(NoAttrs,
       Wrap("article", NoAttrs,
            Leaf("p", NoAttrs, ParagraphText(1))
            \o <<El("img", 0, [alt |-> IMAGE_ALT, src |-> <<"d", ".", "p", "n", "g">>])>>))

\* the document of test_calculate_link_density; the same div with the link
\* inside an object inside another link (the parser keeps an a element
\* below an a element when an object, a table cell or a caption lies
\* between); and an article that is mostly links
LinkDensityDocument(kind) ==
  HeadOf("plain")
  \o BodyOf(NoAttrs,
       CASE kind = "test" ->
              Wrap("div", NoAttrs,
                   <<Tx(0, <<"T", "h", "i", "s", " ", "i", "s", " ", "a", " ">>)>> \o Leaf("a", [href |-> <<"#">>], <<"l", "i", "n", "k">>)
                   \o <<Tx(0, <<" ", "i", "n", " ", "s", "o", "m", "e", " ", "t", "e", "x", "t", ".">>)>>)
         [] kind = "nested" ->
              Wrap("div", NoAttrs,
                   Wrap("a", [href |-> <<"#">>],
                        Wrap("object", NoAttrs, Leaf("a", [href |-> <<"#">>], <<"A", " ", "n", "e", "s", "t", "e", "d", " ", "l", "i", "n", "k">>)))
                   \o <<Tx(0, <<".">>)>>)
         [] kind = "dense_article" ->
              Wrap("article", NoAttrs,
                   Leaf("h2", NoAttrs, <<"L", "i", "n", "k", "s">>)
                   \o Wrap("p", NoAttrs, Leaf("a", [href |-> <<"#">>], <<"T", "h", "e", " ", "f", "i", "r", "s", "t", " ", "l", "i", "n", "k", " ", "o", "f", " ", "t", "h", "e", " ", "l", "i", "s", "t", " ", "o", "f", " ", "l", "i", "n", "k", "s", " ", "o", "n", " ", "t", "h", "i", "s", " ", "p", "a", "g", "e">>))
                   \o Wrap("p", NoAttrs, Leaf("a", [href |-> <<"#">>], <<"T", "h", "e", " ", "s", "e", "c", "o", "n", "d", " ", "l", "i", "n", "k", " ", "o", "f", " ", "t", "h", "e", " ", "l", "i", "s", "t", " ", "o", "f", " ", "l", "i", "n", "k", "s", " ", "o", "n", " ", "t", "h", "i", "s", " ", "p", "a", "g", "e">>))
                   \o Leaf("p", NoAttrs, <<"A", "n", "d", " ", "s", "o", "m", "e", " ", "w", "o", "r", "d", "s", " ", "w", "i", "t", "h", "o", "u", "t", " ", "a", " ", "l", "i", "n", "k", ".">>)))

\* an article with a class that score_node penalises
SidebarArticleDocument ==
  HeadOf("plain")
  \o BodyOf(NoAttrs,
       Wrap("article", [class |-> <<"s", "i", "d", "e", "b", "a", "r", " ", "c", "o", "n", "t", "e", "n", "t">>, id |-> <<"r", "e", "l", "a", "t", "e", "d">>],
            Leaf("h2", NoAttrs, <<"R", "e", "l", "a", "t", "e", "d">>) \o PlainParagraphs(2)))

\* two blocks of the same structure and the same length of text
TieDocument ==
  HeadOf("plain")
  \o BodyOf(NoAttrs,
       Wrap("div", [class |-> <<"c", "o", "n", "t", "e", "n", "t">>],
            Leaf("p", NoAttrs, <<"T", "h", "e", " ", "f", "i", "r", "s", "t", " ", "b", "l", "o", "c", "k", ".", " ">> \o Filler("a", 120)))
       \o Wrap("div", [class |-> <<"c", "o", "n", "t", "e", "n", "t">>],
            Leaf("p", NoAttrs, <<"T", "h", "e", " ", "o", "t", "h", "e", "r", " ", "b", "l", "o", "c", "k", ".", " ">> \o Filler("b", 120))))

\* an article whose score is negative: one paragraph in a wrapper that the
\* selector engine excludes, and a footer with a navigation link
NegativeArticleDocument ==
  HeadOf("plain")
  \o BodyOf(NoAttrs,
       Wrap("article", NoAttrs,
            Wrap("div", [class |-> <<"d", "a", "t", "e">>], Leaf("p", NoAttrs, ParagraphText(1)))
            \o Wrap("footer", NoAttrs,
                 Wrap("nav", NoAttrs, Leaf("a", [href |-> <<"#">>], <<"H", "o", "m", "e">>)))))

\* three short paragraphs: two in a wrapper that the selector engine
\* excludes, the third in a footer, in a div of class footer one level
\* deeper, or in the wrapper too
ContainerDocument(kind) ==
  HeadOf("plain")
  \o BodyOf(NoAttrs,
       Wrap("div", [class |-> <<"d", "a", "t", "e">>],
            Leaf("p", NoAttrs, <<"F", "i", "r", "s", "t", " ", "n", "o", "t", "e", " ", "o", "f", " ", "t", "h", "e", " ", "d", "a", "y", " ", "h", "e", "r", "e", ".">>)
            \o Leaf("p", NoAttrs, <<"S", "e", "c", "o", "n", "d", " ", "n", "o", "t", "e", " ", "o", "f", " ", "t", "h", "e", " ", "d", "a", "y", " ", "h", "e", "r", "e", ".">>)
            \o (IF kind = "wrapper" THEN Leaf("p", NoAttrs, <<"T", "h", "i", "r", "d", " ", "n", "o", "t", "e", " ", "o", "f", " ", "t", "h", "e", " ", "d", "a", "y", " ", "h", "e", "r", "e", ".">>)
                ELSE <<>>))
       \o (CASE kind = "footer_tag" ->
                  Wrap("footer", NoAttrs, Leaf("p", NoAttrs, <<"T", "h", "i", "r", "d", " ", "n", "o", "t", "e", ",", " ", "i", "n", " ", "t", "h", "e", " ", "f", "o", "o", "t", "e", "r", ".">>))
             [] kind = "footer_class_deep" ->
                  Wrap("div", [class |-> <<"f", "o", "o", "t", "e", "r">>],
                       Wrap("div", [class |-> <<"d", "a", "t", "e">>],
                            Leaf("p", NoAttrs, <<"T", "h", "i", "r", "d", " ", "n", "o", "t", "e", ",", " ", "i", "n", " ", "t", "h", "e", " ", "f", "o", "o", "t", "e", "r", ".">>)))
             [] kind = "footer_class" ->
                  Wrap("div", [class |-> <<"f", "o", "o", "t", "e", "r">>],
                       Leaf("p", NoAttrs, <<"T", "h", "i", "r", "d", " ", "n", "o", "t", "e", ",", " ", "i", "n", " ", "t", "h", "e", " ", "f", "o", "o", "t", "e", "r", ".">>))
             [] kind = "wrapper" -> <<>>))

ContainerKinds == {"footer_tag", "footer_class_deep", "footer_class", "wrapper"}

SHORT_PARAGRAPH == <<"T", "o", "o", " ", "s", "h", "o", "r", "t", ".">>

\* a body whose blocks stand in the reverse of the block-type order: an
\* image, a table, a list, a short and a long paragraph, a heading
MixedOrderDocument ==
  HeadOf("plain")
  \o BodyOf(NoAttrs,
       <<El("img", 0, [alt |-> IMAGE_ALT, src |-> <<"d", ".", "p", "n", "g">>])>>
       \o TableOf(<<Tx(0, <<"C", "e", "l", "l", " ", "t", "e", "x", "t">>)>>)
       \o Wrap("ul", NoAttrs, Leaf("li", NoAttrs, <<"F", "i", "r", "s", "t", " ", "i", "t", "e", "m">>) \o Leaf("li", NoAttrs, <<"S", "e", "c", "o", "n", "d", " ", "i", "t", "e", "m">>))
       \o Leaf("p", NoAttrs, <<" ", " ">> \o SHORT_PARAGRAPH \o <<" ", " ">>)
       \o Leaf("p", NoAttrs, ParagraphText(1))
       \o Leaf("h2", NoAttrs, HEADING_TEXT))

MARKER_PARAGRAPH == <<"D", "o", "w", "n", "l", "o", "a", "d", " ", "t", "h", "e", " ", "f", "u", "l", "l", " ", "r", "e", "p", "o", "r", "t", " ", "h", "e", "r", "e", ".">>

\* an article whose first paragraph holds a boilerplate marker, in a
\* wrapper that the selector engine excludes
MarkerFirstDocument ==
  HeadOf("plain")
  \o BodyOf(NoAttrs,
       Wrap("article", NoAttrs,
            Wrap("div", [class |-> <<"d", "a", "t", "e">>],
                 Leaf("p", NoAttrs, MARKER_PARAGRAPH)
                 \o Leaf("p", NoAttrs, ParagraphText(1)))))

\* 11 characters of text and 14 of padding: 25 bytes
PADDED_PARAGRAPH == <<"S", "h", "o", "r", "t", " ", "t", "e", "x", "t", ".">> \o <<" ", " ", " ", " ", " ", " ", " ", " ", " ", " ", " ", " ", " ", " ">>

\* a div with a padded short paragraph, and a short paragraph beside the div
PaddedParagraphDocument ==
  HeadOf("plain")
  \o BodyOf(NoAttrs,
       Wrap("div", NoAttrs, Leaf("p", NoAttrs, PADDED_PARAGRAPH))
       \o Leaf("p", NoAttrs, <<"O", "t", "h", "e", "r", " ", "n", "o", "t", "e", ".">>))

\* paragraph texts around a URL: a whole URL, a scheme followed by a
\* space, and a URL with an empty pair of parentheses after the scheme
UrlText(kind) ==
  CASE kind = "url" -> <<"R", "e", "a", "d", " ", "i", "t", " ", "a", "t", " ", "h", "t", "t", "p", "s", ":", "/", "/", "e", "x", "a", "m", "p", "l", "e", ".", "c", "o", "m", "/", "p", "a", "g", "e", " ", "t", "o", "d", "a", "y", ".">>
    [] kind = "scheme" -> <<"A", "d", "d", "r", "e", "s", "s", "e", "s", " ", "s", "t", "a", "r", "t", " ", "w", "i", "t", "h", " ", "h", "t", "t", "p", ":", "/", "/", " ", "o", "n", " ", "t", "h", "i", "s", " ", "s", "i", "t", "e", ".">>
    [] kind = "split" -> <<"R", "e", "a", "d", " ", "i", "t", " ", "a", "t", " ", "h", "t", "t", "p", "s", ":", "(", ")", "/", "/", "e", "x", "a", "m", "p", "l", "e", ".", "c", "o", "m", "/", "p", "a", "g", "e", " ", "t", "o", "d", "a", "y", ".">>

UrlKinds == {"url", "scheme", "split"}

\* an article with the paragraph and an image without alt text, in a
\* wrapper that the selector engine excludes
UrlDocument(kind) ==
  HeadOf("plain")
  \o BodyOf(NoAttrs,
       Wrap("article", NoAttrs,
            Wrap("div", [class |-> <<"d", "a", "t", "e">>],
                 Leaf("p", NoAttrs, UrlText(kind))
                 \o <<El("img", 0, [src |-> <<"h", "t", "t", "p", "s", ":", "/", "/", "e", "x", "a", "m", "p", "l", "e", ".", "c", "o", "m", "/", "d", ".", "p", "n", "g">>])>>)))

LinkDensityKinds == {"test", "nested", "dense_article"}

\* the document of test_clean_html_removes_scripts
ScriptDocument ==
  HeadOf("plain")
  \o BodyOf(NoAttrs, Leaf("p", NoAttrs, <<"T", "e", "x", "t">>) \o Leaf("script", NoAttrs, <<"a", "l", "e", "r", "t", "(", "1", ")", ";">>))

\* pages with the structure of a Wikipedia page under a head that names no
\* site: a mirror or a MediaWiki installation
MediaWikiDocuments == {WikiDocument("plain", kinds) : kinds \in SectionSeqs(1)}

\* one article under each kind of head
HeadDocuments == {HeadOf(h) \o BodyOf(NoAttrs, ArticleBlock(1)) : h \in HeadKinds}

WRAPPED_SHORT == <<"S", "h", "o", "r", "t", " ", "n", "o", "t", "e", " ", "i", "n", " ", "a", " ", "w", "r", "a", "p", "p", "e", "r", ".">>

WRAPPED_LONG ==
  ParagraphText(1) \o <<" ">> \o ParagraphText(2) \o <<" ">> \o ParagraphText(3)

\* class attributes of the wrapper: excluded by the selector engine
WrapperClasses == {<<"s", "i", "d", "e", "b", "a", "r">>, <<"d", "a", "t", "e">>, <<"p", "o", "s", "t", " ", "d", "a", "t", "e">>}

\* what the wrapper holds: one paragraph, three paragraphs, or bare text
WrappedContent(kind) ==
  CASE kind = "one_short" -> Leaf("p", NoAttrs, WRAPPED_SHORT)
    [] kind = "one_long" -> Leaf("p", NoAttrs, WRAPPED_LONG)
    [] kind = "three_short" ->
         Leaf("p", NoAttrs, WRAPPED_SHORT \o <<" ", "1">>) \o Leaf("p", NoAttrs, WRAPPED_SHORT \o <<" ", "2">>)
         \o Leaf("p", NoAttrs, WRAPPED_SHORT \o <<" ", "3">>)
    [] kind = "bare_short" -> <<Tx(0, WRAPPED_SHORT)>>
    [] kind = "bare_long" -> <<Tx(0, WRAPPED_LONG)>>

WrappedKinds == {"one_short", "one_long", "three_short", "bare_short", "bare_long"}

\* the documents with one div of a wrapper class in the body, the text in
\* paragraphs of the div or directly in the div
WrappedDocuments ==
  {HeadOf("plain") \o BodyOf(NoAttrs, Wrap("div", [class |-> c], WrappedContent(kind))) :
     c \in WrapperClasses, kind \in WrappedKinds}
\* the values of min_extracted_size tried; 250 is the default
MinSizes == {10, 100, 250, 1000}

\* the configurations with the given choices of include_links,
\* include_tables and min_extracted_size
ConfigsOf(links, tables, sizes) ==
  [include_comments : {FALSE}, include_tables : tables, include_links : links,
   include_images : {FALSE}, min_extracted_size : sizes]

\* the configurations with both choices of include_images
ImageConfigs ==
  [include_comments : {FALSE}, include_tables : {TRUE}, include_links : {FALSE},
   include_images : BOOLEAN, min_extracted_size : {10, 1000}]

\* the calls: a document and a configuration.  An option that no element
\* of a family of documents can meet is left at one value
Calls ==
  (ArticleDocuments \X ConfigsOf(BOOLEAN, {TRUE}, MinSizes))
  \union (HeadDocuments \X ConfigsOf({FALSE}, {TRUE}, {10, 1000}))
  \union (UnwantedDocuments \X ConfigsOf({FALSE}, {TRUE}, {250, 1000}))
  \union (WikiDocuments \X (ConfigsOf({FALSE}, BOOLEAN, {100})
                            \union ConfigsOf({FALSE}, {TRUE}, {10, 1000})))
  \union (MediaWikiDocuments \X ConfigsOf({FALSE}, {TRUE}, {10, 100, 1000}))
  \union (WrappedDocuments \X ConfigsOf({FALSE}, {TRUE}, {10, 1000}))
  \union ({FramesetDocument("plain")} \X ConfigsOf({FALSE}, {TRUE}, {10}))
  \union (TableDocuments \X ConfigsOf({FALSE}, BOOLEAN, {10, 100}))
  \union ({ImageDocument} \X ImageConfigs)
  \union ({LinkDensityDocument(kind) : kind \in LinkDensityKinds}
          \X ConfigsOf({FALSE}, {TRUE}, {10, 250}))
  \union ({SidebarArticleDocument} \X ConfigsOf({FALSE}, {TRUE}, {10, 250}))
  \union ({TieDocument} \X ConfigsOf({FALSE}, {TRUE}, {250, 1000}))
  \union ({NegativeArticleDocument} \X ConfigsOf({FALSE}, {TRUE}, {10, 250}))
  \union ({ContainerDocument(kind) : kind \in ContainerKinds}
          \X ConfigsOf({FALSE}, {TRUE}, {10, 250}))
  \union ({MixedOrderDocument} \X ImageConfigs)
  \union ({MarkerFirstDocument} \X ConfigsOf({FALSE}, {TRUE}, {10, 250}))
  \union ({PaddedParagraphDocument} \X ConfigsOf({FALSE}, {TRUE}, {250}))
  \union ({UrlDocument(kind) : kind \in UrlKinds}
          \X [include_comments : {FALSE}, include_tables : {TRUE}, include_links : {FALSE},
              include_images : BOOLEAN, min_extracted_size : {10}])
  \union ({ScriptDocument} \X ConfigsOf({FALSE}, {TRUE}, {10, 250}))
  \union ({EmptyDocument} \X ConfigsOf({FALSE}, {TRUE}, {0, 10}))

\* extract_html(html, config) is called
Init ==
  /\ \E call \in Calls : doc = call[1] /\ config = call[2]
  /\ pc = "xpath"
  /\ content = <<>>
  /\ result = Pending
  /\ tried = <<>>
  /\ source = "none"

Spec == Init /\ [][Next]_vars

\* ------------------------------------------------------------------------
\* Properties of extract_html
\* ------------------------------------------------------------------------

\* the call has returned
Done == pc = "done"

\* C1: whenever extract_html returns Ok, the returned content is non-empty
\* and its length is at least config.min_extracted_size, whichever strategy
\* produced it
OkContentMeetsFloor ==
  result.status = "Ok" =>
    /\ result.content # <<>>
    /\ ByteLen(result.content) >= config.min_extracted_size

\* an Ok whose content is the text of the readability fallback, after the
\* selector engine and extract_content produced too little
OkFromReadability ==
  /\ Done
  /\ result.status = "Ok"
  /\ source = "readability"
  /\ Len(tried) > 1

\* C2: when min_extracted_size is larger than the output of every strategy
\* that ran, extract_html returns the ExtractionError "Extracted content too
\* short" and never Ok
TooShortIsAnError ==
  /\ Done
  /\ tried # <<>>
  /\ \A k \in 1..Len(tried) : ByteLen(tried[k].output) < config.min_extracted_size
  => /\ result.status = "Err"
     /\ result.error = "Extracted content too short"

\* every strategy ran, some of them produced text, all of it under the floor
AllStrategiesTooShort ==
  /\ Done
  /\ Len(tried) = 8
  /\ \E k \in 1..Len(tried) : tried[k].output # <<>>
  /\ \A k \in 1..Len(tried) : ByteLen(tried[k].output) < config.min_extracted_size
  /\ result.status = "Err"

\* the order of the strategies in extract_html and extract_content
CodeOrder ==
  <<"xpath", "wikipedia", "article", "hints", "density", "paragraphs", "last_resort",
    "readability">>

\* the order of the strategies as C3 lists them
ListedOrder == <<"xpath", "article", "hints", "density", "paragraphs", "last_resort">>

\* every strategy that ran before the last one was rejected
EarlierRejected ==
  \A k \in 1..(Len(tried) - 1) : ~Accepted(tried[k].output, config)

\* C3 (amended): the strategies run in the order of CodeOrder, the last
\* resort only if the filtered paragraphs returned nothing; an Ok carries the
\* output of exactly one strategy, the last that ran, which is accepted, and
\* every strategy that ran before it was rejected
ReturnsLastTriedInCodeOrder ==
  /\ Len(tried) <= Len(CodeOrder)
  /\ \A k \in 1..Len(tried) :
       \/ tried[k].strategy = CodeOrder[k]
       \/ k = 7 /\ tried[k].strategy = "readability" /\ tried[6].output # <<>>
  /\ result.status = "Ok" =>
       /\ tried # <<>>
       /\ source = tried[Len(tried)].strategy
       /\ result.content = tried[Len(tried)].output
       /\ Accepted(result.content, config)
       /\ EarlierRejected

\* an Ok with the text of the filtered paragraphs, the five strategies before
\* them rejected
OkFromParagraphs ==
  /\ Done
  /\ result.status = "Ok"
  /\ source = "paragraphs"
  /\ Len(tried) = 6

\* C3 as stated: the strategies run in the order selector engine, best
\* article, content hints, density, filtered paragraphs, last resort, and an
\* Ok carries the output of the first of these six that is accepted
ReturnsFirstOfListedOrder ==
  /\ Len(tried) <= Len(ListedOrder)
  /\ \A k \in 1..Len(tried) : tried[k].strategy = ListedOrder[k]
  /\ result.status = "Ok" =>
       /\ tried # <<>>
       /\ result.content = tried[Len(tried)].output
       /\ Accepted(result.content, config)
       /\ EarlierRejected

\* C4 (amended): the last resort runs before the readability fallback; the
\* readability fallback runs only after extract_content returned text that
\* is empty or under the floor, and an Ok with the last resort's text is
\* returned without the readability fallback having run
LastResortBeforeReadability ==
  /\ \A k \in 1..Len(tried) :
       tried[k].strategy = "readability" =>
         /\ k > 1
         /\ tried[k - 1].strategy \in {"paragraphs", "last_resort"}
         /\ ~Accepted(tried[k - 1].output, config)
  /\ result.status = "Ok" /\ source = "last_resort" =>
       \A k \in 1..Len(tried) : tried[k].strategy # "readability"

\* an Ok with the last resort's text
OkFromLastResort ==
  /\ Done
  /\ result.status = "Ok"
  /\ source = "last_resort"
  /\ result.content = tried[Len(tried)].output

\* C4 as stated: the readability fallback is tried before the last resort,
\* whose text is returned only when the readability text was rejected
ReadabilityBeforeLastResort ==
  result.status = "Ok" /\ source = "last_resort" =>
    \E k \in 1..Len(tried) :
       /\ tried[k].strategy = "readability"
       /\ ~Accepted(tried[k].output, config)

\* C5: an ExtractionError of the selector engine ("No content elements
\* found") is not returned by extract_html, which goes on to the next
\* strategy
SelectorErrorDoesNotAbort ==
  Done /\ ~extract_with_xpath(doc, config).ok =>
    /\ ~(result.status = "Err" /\ result.error = "No content elements found")
    /\ \E k \in 1..Len(tried) : tried[k].strategy = "wikipedia"

\* the element with the given tag and text, 0 if the document has none
ElementWith(d, tag, text) ==
  LET found == {i \in 1..Len(d) : d[i].tag = tag /\ TextOf(d, i) = text}
  IN IF found = {} THEN 0 ELSE SetMin(found)

\* the paragraph of the document that holds <a href=LINK_URL>LINK_TEXT</a>
LinkParagraphOf(d) ==
  LET a == ElementWith(d, "a", LINK_TEXT)
  IN IF a = 0 THEN 0 ELSE Parent(d, a)

\* C6: when the paragraph around <a href=U>T</a>, U an absolute http(s)
\* URL, is extracted, the result contains T, and it contains "(U)" if and
\* only if config.include_links is true
LinkTargetIffIncludeLinks ==
  /\ Done
  /\ result.status = "Ok"
  /\ LinkParagraphOf(doc) # 0
  /\ Contains(result.content, LINK_LEAD)
  => /\ Contains(result.content, LINK_TEXT)
     /\ Contains(result.content, <<"(">> \o LINK_URL \o <<")">>) <=> config.include_links

\* the first element of the document with the given tag, 0 if it has none
FirstWithTag(d, tag) ==
  LET found == {i \in 1..Len(d) : d[i].tag = tag}
  IN IF found = {} THEN 0 ELSE SetMin(found)

\* the document has an <article> with a heading and paragraphs whose text
\* meets the floor, and a <footer> outside the article
ArticleMeetsFloor(d, c) ==
  LET article == FirstWithTag(d, "article")
      footer == FirstWithTag(d, "footer")
  IN /\ article # 0
     /\ footer # 0
     /\ footer \notin Desc(d, article)
     /\ \E h \in Desc(d, article) : IsHeadingTag(d, h)
     /\ \E p \in Desc(d, article) : IsP(d, p)
     /\ ByteLen(TextOf(d, article)) >= c.min_extracted_size

\* C7: for a document whose <article> holds a heading and paragraphs long
\* enough to meet min_extracted_size and whose <footer> lies outside the
\* article, extract_html returns Ok and the content contains the heading
\* text and every paragraph's text and none of the footer's text
ArticleWithoutFooter ==
  Done /\ ArticleMeetsFloor(doc, config) =>
    /\ result.status = "Ok"
    /\ \A i \in Desc(doc, FirstWithTag(doc, "article")) :
         IsHeadingTag(doc, i) \/ IsP(doc, i) => Contains(result.content, TextOf(doc, i))
    /\ ~Contains(result.content, TextOf(doc, FirstWithTag(doc, "footer")))

\* the paragraphs with a class of the denylist UNWANTED_CLASSES
UnwantedParagraphs(d) ==
  {p \in 1..Len(d) :
     /\ IsP(d, p)
     /\ HasAttr(d, p, "class")
     /\ \E class \in Words(d[p].attrs["class"]) : class \in UNWANTED_CLASSES}

\* the paragraphs without class whose text meets the floor
ValidParagraphs(d, c) ==
  {p \in 1..Len(d) :
     /\ IsP(d, p)
     /\ ~HasAttr(d, p, "class")
     /\ ByteLen(TextOf(d, p)) >= c.min_extracted_size}

\* C8: for a document with paragraphs of a denylisted class and a valid
\* paragraph long enough to meet min_extracted_size, the content contains
\* the valid paragraph's text and none of the unwanted paragraphs' text
UnwantedParagraphsLeftOut ==
  /\ Done
  /\ UnwantedParagraphs(doc) # {}
  /\ ValidParagraphs(doc, config) # {}
  => /\ result.status = "Ok"
     /\ \A p \in ValidParagraphs(doc, config) : Contains(result.content, TextOf(doc, p))
     /\ \A p \in UnwantedParagraphs(doc) : ~Contains(result.content, TextOf(doc, p))

\* the heading of the section an element lies in: the last heading before
\* it among the children of its parent, 0 if no heading comes before it
SectionHeading(d, i) ==
  LET before == {h \in 1..(i - 1) : IsHeadingTag(d, h) /\ Parent(d, h) = Parent(d, i)}
  IN IF before = {} THEN 0 ELSE SetMax(before)

\* the element follows a heading with a skip title, no other heading between
InSkippedSection(d, i) ==
  SectionHeading(d, i) # 0 /\ should_skip_section(TextOf(d, SectionHeading(d, i)))

\* the paragraphs, lists and tables below div.mw-parser-output
SectionBlocks(d) ==
  {i \in 1..Len(d) :
     /\ d[i].tag \in {"p", "ul", "ol", "table"}
     /\ Parent(d, i) # 0
     /\ HasClassMwParserOutput(d, Parent(d, i))}

\* the text the selector engine produced, <<>> before it ran
SelectorOutput ==
  IF tried # <<>> /\ tried[1].strategy = "xpath" THEN tried[1].output ELSE <<>>

\* C9: in the Wikipedia variant of the selector engine a paragraph, list or
\* table that follows a heading with a skip title is left out, whatever
\* headings came before that heading, and a paragraph before the first
\* heading is never left out
SkipTitleSuppressesItsSection ==
  tried # <<>> /\ tried[1].strategy = "xpath" /\ is_wikipedia_page(doc) =>
    /\ \A i \in SectionBlocks(doc) :
         InSkippedSection(doc, i) => ~Contains(SelectorOutput, TextOf(doc, i))
    /\ \A i \in SectionBlocks(doc) :
         SectionHeading(doc, i) = 0 /\ IsP(doc, i) => Contains(SelectorOutput, TextOf(doc, i))

\* whether s ends with pat
EndsWith(s, pat) ==
  Len(pat) <= Len(s) /\ SubSeq(s, Len(s) - Len(pat) + 1, Len(s)) = pat

\* the host of an absolute URL: what lies between "://" and the next "/",
\* "?" or "#"
HostOf(url) ==
  LET schemes == {i \in 1..Len(url) : At(url, i, <<":", "/", "/">>)}
      first == IF schemes = {} THEN 1 ELSE SetMin(schemes) + 3
      ends == {i \in first..Len(url) : url[i] \in {"/", "?", "#"}}
      last == IF ends = {} THEN Len(url) ELSE SetMin(ends) - 1
  IN SubSeq(url, first, last)

\* the condition of C10 for the Wikipedia variant
NamedWikipedia(d) ==
  \/ \E i \in 1..Len(d) :
       /\ IsSiteNameMeta(d, i)
       /\ HasAttr(d, i, "content")
       /\ Contains(d[i].attrs["content"], <<"W", "i", "k", "i", "p", "e", "d", "i", "a">>)
  \/ \E i \in 1..Len(d) :
       /\ IsCanonicalLink(d, i)
       /\ HasAttr(d, i, "href")
       /\ EndsWith(HostOf(d[i].attrs["href"]), <<"w", "i", "k", "i", "p", "e", "d", "i", "a", ".", "o", "r", "g">>)

\* C10: is_wikipedia_page holds if and only if an og:site_name meta tag's
\* content contains "Wikipedia" or a canonical link's href has a host that
\* ends in wikipedia.org
WikipediaVariantByHost == is_wikipedia_page(doc) <=> NamedWikipedia(doc)


\* the contents of the og:site_name meta elements
SiteNames(d) ==
  {d[i].attrs["content"] :
     i \in {j \in 1..Len(d) : IsSiteNameMeta(d, j) /\ HasAttr(d, j, "content")}}

HasCanonicalLink(d) == \E i \in 1..Len(d) : IsCanonicalLink(d, i)

\* C11: is_wikipedia_page is true of a document whose og:site_name is
\* "Wikipedia", and false of a document without canonical link whose
\* og:site_name names another site, such as "Not Wikipedia"
SiteNameDecidesWikipedia ==
  /\ <<"W", "i", "k", "i", "p", "e", "d", "i", "a">> \in SiteNames(doc) => is_wikipedia_page(doc)
  /\ /\ SiteNames(doc) # {}
     /\ <<"W", "i", "k", "i", "p", "e", "d", "i", "a">> \notin SiteNames(doc)
     /\ ~HasCanonicalLink(doc)
     => ~is_wikipedia_page(doc)

\* C12: the Wikipedia-specific extraction produces text during a call only
\* if the call classified the document as a Wikipedia page
WikipediaExtractionOnlyForWikipedia ==
  \A k \in 1..Len(tried) :
    tried[k].strategy = "wikipedia" /\ tried[k].output # <<>> => is_wikipedia_page(doc)

\* the nodes of d that are an unwanted element or lie below one
InUnwantedElement(d) ==
  {i \in 1..Len(d) :
     \E a \in Ancestors(d, i) \union {i} : d[a].tag \in UNWANTED_ELEMENTS}

\* the strategy is the last that ran and extract_html has not ended
JustRan(strategy) ==
  pc # "done" /\ tried # <<>> /\ tried[Len(tried)].strategy = strategy

\* extract_content has just cleaned the document, before its first strategy
Cleaned == JustRan("wikipedia")

\* C13: the document returned by clean_html holds no element of an unwanted
\* tag and no descendant of one, and the paragraphs outside such elements
\* remain
CleanedHasNoUnwantedElement ==
  Cleaned =>
    /\ InUnwantedElement(clean_html(doc, config)) = {}
    /\ \A i \in 1..Len(doc) :
         IsP(doc, i) /\ i \notin InUnwantedElement(doc) =>
           \E j \in 1..Len(clean_html(doc, config)) :
             /\ IsP(clean_html(doc, config), j)
             /\ TextOf(clean_html(doc, config), j) = TextOf(doc, i)

\* C14: cleaning a cleaned document changes nothing
CleanIsIdempotent ==
  Cleaned => clean_html(clean_html(doc, config), config) = clean_html(doc, config)

\* a document with a footer has been cleaned
CleanedDocumentWithFooter ==
  Cleaned /\ \E i \in 1..Len(doc) : doc[i].tag = "footer"

\* the text nodes of d that lie inside a table element
TableTextNodes(d) ==
  {i \in 1..Len(d) :
     /\ d[i].tag = "#text"
     /\ Trim(d[i].text) # <<>>
     /\ \E a \in Ancestors(d, i) : IsTable(d, a)}

IMAGE_MARKER == <<"[", "I", "m", "a", "g", "e", ":", " ">>

\* C15: the returned content holds no text of a table when include_tables
\* is false and no image marker when include_images is false
ExcludedElementsLeftOut ==
  result.status = "Ok" =>
    /\ ~config.include_tables =>
         \A i \in TableTextNodes(doc) : ~Contains(result.content, Trim(doc[i].text))
    /\ ~config.include_images => ~Contains(result.content, IMAGE_MARKER)

\* extract_by_density has just run
DensityComputed == JustRan("density")

\* the elements find_content_candidates looks at
ContainerElements(d) == {i \in 1..Len(d) : d[i].tag \in SeqToSet(CandidateTags)}

\* C16: the link density of every element is 0 when the element has no
\* text and at most 1 otherwise: the text in its links is never longer than
\* its text
LinkDensityWithinUnit ==
  DensityComputed =>
    \A i \in ContainerElements(doc) :
      LinkLengths(doc, i)[1] <= LinkLengths(doc, i)[2]

\* the nearest heading before an element in document order, 0 if there is
\* none
NearestHeading(d, i) ==
  LET before == {h \in 1..(i - 1) : IsHeadingTag(d, h)}
  IN IF before = {} THEN 0 ELSE SetMax(before)

\* the nearest heading before the element has a skip title
NearestHeadingSkips(d, i) ==
  NearestHeading(d, i) # 0 /\ should_skip_section(TextOf(d, NearestHeading(d, i)))

\* C17: in the Wikipedia variant find_preceding_heading_text returns the
\* nearest heading before the element, the element is suppressed if and only
\* if that heading is a skip heading, and a paragraph whose nearest heading
\* is no skip heading is in the output
NearestHeadingDecidesSkip ==
  tried # <<>> /\ tried[1].strategy = "xpath" /\ is_wikipedia_page(doc) =>
    \A i \in SectionBlocks(doc) :
      /\ find_preceding_heading(doc, i, i) = NearestHeading(doc, i)
      /\ SkippedBySection(doc, TRUE, i) <=> NearestHeadingSkips(doc, i)
      /\ IsP(doc, i) /\ ~NearestHeadingSkips(doc, i) =>
           Contains(SelectorOutput, TextOf(doc, i))

\* the number of descendants of node i with one of the tags
CountTags(d, i, tags) == Cardinality({j \in Desc(d, i) : d[j].tag \in tags})

\* the sum of the tag weights of the descendant elements of node i
RECURSIVE WeightsFrom(_, _, _)
WeightsFrom(d, j, last) ==
  IF j > last THEN 0 ELSE TagWeight(d[j].tag) + WeightsFrom(d, j + 1, last)

\* the node has a heading h1-h3: among its children when direct, among its
\* descendants otherwise
HasTopHeading(d, i, direct) ==
  \E h \in Desc(d, i) :
    d[h].tag \in {"h1", "h2", "h3"} /\ (direct => Parent(d, h) = i)

\* the formula of the scorer, term by term
ScoreFormula(d, i, direct) ==
  LET text_length == ByteLen(TextOf(d, i))
      link_text == LinkLengths(d, i)[1]
      penalised == text_length # 0 /\ 100 * link_text > 33 * text_length
  IN text_length \div 20
     + 75 * Cardinality({a \in {"class"} : has_class_hint(d, i, SeqToSet(CONTENT_CLASSES))})
     + 75 * Cardinality({a \in {"id"} : has_id_hint(d, i, SeqToSet(CONTENT_IDS))})
     + 10 * CountTags(d, i, {"p"})
     + 5 * CountTags(d, i, {"p", "li"} \union HeadingTags)
     - 50 * Cardinality({a \in {"class"} : has_class_hint(d, i, ScoreUnwantedHints)})
     - 50 * Cardinality({a \in {"id"} : has_id_hint(d, i, ScoreUnwantedHints)})
     + WeightsFrom(d, i + 1, SubtreeEnd(d, i))
     - (IF penalised THEN (150 * link_text) \div text_length ELSE 0)
     + (IF HasTopHeading(d, i, direct) /\ CountTags(d, i, {"p"}) >= 2 THEN 30 ELSE 0)

\* the elements score_node has just been called on: the articles after the
\* article strategy, the candidates after extract_by_density
Scored ==
  IF JustRan("article") THEN Select(doc, 0, IsArticle)
  ELSE IF DensityComputed THEN SeqToSet(find_content_candidates(doc))
  ELSE {}

\* C18 as stated: score_node equals the formula with the bonus of 30 for a
\* direct h1-h3 heading and two paragraph descendants
ScoreEqualsFormulaDirectHeading ==
  \A e \in Scored : score_node(doc, e, config) = ScoreFormula(doc, e, TRUE)

\* C18 amended: score_node equals the formula with the bonus of 30 for an
\* h1-h3 heading anywhere below the node and two paragraph descendants
ScoreEqualsFormula ==
  \A e \in Scored : score_node(doc, e, config) = ScoreFormula(doc, e, FALSE)

\* a scored element with two paragraphs has its h1-h3 headings deeper than
\* its children
ScoredDeepHeading ==
  \E e \in Scored :
    /\ HasTopHeading(doc, e, FALSE) /\ ~HasTopHeading(doc, e, TRUE)
    /\ CountTags(doc, e, {"p"}) >= 2

\* the condition of C19 on an element: a container tag, no unwanted hint,
\* link density at most 0.33, and a high-priority condition or more than 100
\* bytes of text
QualifiesAsCandidate(d, i) ==
  LET text_length == ByteLen(TextOf(d, i))
      paragraphs == CountTags(d, i, {"p"})
      link_text == LinkLengths(d, i)[1]
  IN /\ d[i].tag \in {"article", "main", "section", "div", "body"}
     /\ ~has_class_hint(d, i, CandidateUnwantedHints)
     /\ ~has_id_hint(d, i, CandidateUnwantedHints)
     /\ text_length = 0 \/ 100 * link_text <= 33 * text_length
     /\ \/ text_length > 250 /\ paragraphs >= 2
        \/ text_length > 500
        \/ paragraphs >= 4
        \/ has_class_hint(d, i, SeqToSet(CONTENT_CLASSES))
        \/ has_id_hint(d, i, SeqToSet(CONTENT_IDS))
        \/ text_length > 100

\* C19: find_content_candidates lists exactly the elements that meet the
\* condition
CandidatesAreTheQualifying ==
  DensityComputed =>
    SeqToSet(find_content_candidates(doc))
      = {i \in 1..Len(doc) : QualifiesAsCandidate(doc, i)}

\* the candidate search has looked at a container of more than 100 bytes
\* that is mostly links
CandidateSearchMetLinkContainer ==
  /\ DensityComputed
  /\ \E i \in ContainerElements(doc) :
       ByteLen(TextOf(doc, i)) > 100 /\ LinkDensityAboveThreshold(doc, i)

\* the places in the candidate list of the candidates with the maximum
\* score
MaximumScorePlaces(d, c) ==
  LET candidates == find_content_candidates(d)
  IN {n \in 1..Len(candidates) :
        \A m \in 1..Len(candidates) :
          score_node(d, candidates[m], c) <= score_node(d, candidates[n], c)}

\* C20: extract_by_density returns the text of the earliest candidate of
\* maximum score, and nothing when there is no candidate
DensityPicksFirstMaximum ==
  DensityComputed =>
    tried[Len(tried)].output =
      IF find_content_candidates(doc) = <<>> THEN <<>>
      ELSE get_text_content(
             doc,
             find_content_candidates(doc)[SetMin(MaximumScorePlaces(doc, config))],
             config)

\* extract_by_density chose between two candidates of maximum score with
\* different text
DensityBrokeTie ==
  /\ DensityComputed
  /\ \E m, n \in MaximumScorePlaces(doc, config) :
       TextOf(doc, find_content_candidates(doc)[m])
         # TextOf(doc, find_content_candidates(doc)[n])

\* the places of an element in the candidate list
PlacesOf(candidates, e) == {n \in 1..Len(candidates) : candidates[n] = e}

\* C21: in the list of find_content_candidates every listed element occurs
\* exactly once and every article or main candidate precedes every section,
\* div and body candidate
CandidatesOnceFrontFirst ==
  DensityComputed =>
    LET candidates == find_content_candidates(doc)
    IN /\ \A n \in 1..Len(candidates) :
            Cardinality(PlacesOf(candidates, candidates[n])) = 1
       /\ \A m, n \in 1..Len(candidates) :
            /\ doc[candidates[m]].tag \in {"article", "main"}
            /\ doc[candidates[n]].tag \in {"section", "div", "body"}
            => m < n

\* the articles whose extracted text passes the acceptance test
AcceptableArticles(d, c) ==
  {a \in Select(d, 0, IsArticle) : Accepted(get_text_content(d, a, c), c)}

\* C22: when some article has acceptable text, the article strategy returns
\* the text of an acceptable article of highest score, whatever the sign of
\* the score
ArticleStrategyReturnsBest ==
  JustRan("article") /\ AcceptableArticles(doc, config) # {} =>
    \E a \in AcceptableArticles(doc, config) :
      /\ \A b \in AcceptableArticles(doc, config) :
           score_node(doc, b, config) <= score_node(doc, a, config)
      /\ tried[Len(tried)].output = get_text_content(doc, a, config)

CONTAINER_NAMES == {<<"n", "a", "v">>, <<"m", "e", "n", "u">>, <<"f", "o", "o", "t", "e", "r">>, <<"s", "i", "d", "e", "b", "a", "r">>, <<"c", "o", "m", "m", "e", "n", "t">>}

\* the paragraph lies inside a nav, menu, footer, sidebar or comment
\* container, marked by its tag or by its class, at any depth
InContainer(d, p) ==
  \E a \in Ancestors(d, p) :
    \/ d[a].tag \in {"nav", "menu", "footer", "sidebar", "comment"}
    \/ has_class_hint(d, a, CONTAINER_NAMES)

\* the conditions C23 puts on a qualifying paragraph
MayQualify(d, p) ==
  /\ ByteLen(TextOf(d, p)) >= 20
  /\ ~LinkDensityAboveThreshold(d, p)
  /\ ~InContainer(d, p)

\* C23: the filtered-paragraph strategy counts no paragraph that is short,
\* mostly links or inside a container, and produces a result only when at
\* least 3 paragraphs qualify
FilteredParagraphsQualify ==
  JustRan("paragraphs") =>
    /\ \A p \in Select(doc, 0, IsP) : ParagraphQualifies(doc, p) => MayQualify(doc, p)
    /\ tried[Len(tried)].output # <<>> =>
         Cardinality({p \in Select(doc, 0, IsP) : MayQualify(doc, p)}) >= 3

\* C24: the last resort runs whenever the filtered paragraphs returned
\* nothing, and it always returns the concatenated paragraph text from
\* extract_content, empty or under the floor included, without an error; the
\* error for short content comes only from extract_html, after the
\* readability fallback
LastResortAlwaysReturns ==
  /\ JustRan("paragraphs") /\ tried[Len(tried)].output = <<>> => pc = "last_resort"
  /\ JustRan("last_resort") =>
       /\ pc \in {"returned", "readability", "gate"}
       /\ result.status = "pending"
       /\ source = "last_resort"
       /\ content = tried[Len(tried)].output
       /\ pc = "returned" =>
            content = Trim(ParagraphsText(doc, config, Sorted(Select(doc, 0, IsP))))
  /\ result.status = "Err" /\ result.error = "Extracted content too short" =>
       /\ tried # <<>>
       /\ tried[Len(tried)].strategy = "readability"

\* the last resort has returned text that is not empty and under the floor
LastResortUnderFloor ==
  /\ JustRan("last_resort")
  /\ pc = "returned"
  /\ content # <<>>
  /\ ByteLen(content) < config.min_extracted_size

\* the selector engine has just run
XPathRan == Len(tried) = 1 /\ tried[1].strategy = "xpath"

\* the blocks extract_with_xpath emits for the document, by block type in
\* the claimed order: headings, paragraphs, list items, table markers and
\* image markers, each as it stands in the output
EmittedBlocks(d, c) ==
  LET is_wiki == is_wikipedia_page(d)
      main_element == SetMin(XPathElements(d, is_wiki))
      headings == {h \in (IF is_wiki THEN Select(d, main_element, WikiHeadings)
                          ELSE Select(d, main_element, IsHeadingTag)) :
                     HeadingPart(d, is_wiki, h) # <<>>}
      paragraphs == {p \in (IF is_wiki THEN Select(d, main_element, WikiParagraphs)
                            ELSE Select(d, main_element, DefaultParagraphs)) :
                       ParagraphPart(d, is_wiki, p) # <<>>}
      lists == {l \in (IF is_wiki THEN Select(d, main_element, WikiLists)
                       ELSE Select(d, main_element, DefaultLists)) :
                  c.include_tables /\ ListPart(d, is_wiki, l) # <<>>}
      items == {i \in UNION {IF is_wiki THEN Select(d, l, WikiListItems)
                             ELSE Select(d, l, DefaultListItems) : l \in lists} :
                  ListItemPart(d, i) # <<>>}
      tables == {t \in (IF is_wiki THEN Select(d, main_element, WikiTables)
                        ELSE Select(d, main_element, IsTable)) :
                   c.include_tables /\ TablePart(d, is_wiki, t) # <<>>}
      images == {i \in (IF is_wiki THEN Select(d, main_element, WikiImages)
                        ELSE Select(d, main_element, IsImg)) :
                   c.include_images /\ ImagePart(d, i) # <<>>}
  IN << {Trim(TextOf(d, h)) : h \in headings},
        {Trim(TextOf(d, p)) : p \in paragraphs},
        {<<BULLET, " ">> \o Trim(TextOf(d, i)) : i \in items},
        {Trim(TablePart(d, is_wiki, t)) : t \in tables},
        {Trim(ImagePart(d, i)) : i \in images} >>

\* for a block of type a: the type, the end of its first occurrence in the
\* text and the start of its last one; <<a, 0, 0>> if it does not occur
MarkOf(text, a, x) ==
  Let(Occurrences(text, x), LAMBDA places :
      IF places = {} THEN <<a, 0, 0>>
      ELSE <<a, SetMin(places) + Len(x) - 1, SetMax(places)>>)

\* the text holds x as a block of its own, between blank lines or the ends
HoldsBlock(text, x) ==
  \E i \in Occurrences(text, x) :
    /\ i = 1 \/ (i > 2 /\ SubSeq(text, i - 2, i - 1) = <<"\n", "\n">>)
    /\ i + Len(x) - 1 = Len(text) \/ At(text, i + Len(x), <<"\n", "\n">>)

StoppedParagraphs(d, element) ==
  LET ps == Select(d, element, IsP)
      markers == {p \in ps : IsBoilerplateMarker(TextOf(d, p))}
  IN IF markers = {} THEN {} ELSE {p \in ps : p >= SetMin(markers)}

\* C26: the text get_text_content returns for an article holds neither the
\* text of the first paragraph with a boilerplate marker nor the text of a
\* paragraph after it
MarkerStopsParagraphs ==
  JustRan("article") =>
    \A a \in Select(doc, 0, IsArticle) :
      \A p \in StoppedParagraphs(doc, a) :
        Trim(TextOf(doc, p)) # <<>> =>
          ~Contains(get_text_content(doc, a, config), Trim(TextOf(doc, p)))

\* the candidate list of extract_with_readability for the document
CandidateParents(d, c) ==
  LET working_document == prepare_document(clean_html(d, c))
  IN ReadabilityCandidates(working_document, Sorted(Select(working_document, 0, IsP)),
                           1, <<>>)

\* C27: every candidate of extract_with_readability is the parent of a
\* paragraph with at least 25 characters of trimmed text, and no parent is
\* in the candidate list twice
CandidatesHaveLongParagraph ==
  JustRan("readability") =>
    LET working_document == prepare_document(clean_html(doc, config))
        candidates == CandidateParents(doc, config)
    IN /\ \A n \in 1..Len(candidates) :
            \E p \in Select(working_document, 0, IsP) :
              /\ Parent(working_document, p) = candidates[n]
              /\ ByteLen(Trim(TextOf(working_document, p))) >= 25
       /\ \A m, n \in 1..Len(candidates) : candidates[m] = candidates[n] => m = n

\* the parents of the paragraphs with at least 25 characters of trimmed
\* text
QualifyingParents(d) ==
  {Parent(d, p) : p \in {q \in Select(d, 0, IsP) :
                           /\ Parent(d, q) # 0
                           /\ ByteLen(Trim(TextOf(d, q))) >= 25}}

\* C28: extract_with_readability returns the text of the first parent in
\* document order among those of maximum score, the text of body when no
\* paragraph qualifies, and an error only for a document without body
ReadabilityExtractsTop ==
  /\ JustRan("readability") =>
       LET working_document == prepare_document(clean_html(doc, config))
           parents == QualifyingParents(working_document)
           top == SetMin({x \in parents :
                            \A y \in parents :
                               ~FracGreater(ReadabilityScore(working_document, y),
                                            ReadabilityScore(working_document, x))})
           body == SetMin(Select(working_document, 0, IsBody))
       IN tried[Len(tried)].output =
            get_text_content(working_document, IF parents = {} THEN body ELSE top, config)
  /\ result.status = "Err" /\ result.error = "No body element found" =>
       Select(doc, 0, IsBody) = {}

\* div.mw-parser-output below #mw-content-text, 0 if there is none
WikiParserOutput(d) ==
  LET mains == Select(d, 0, HasIdMwContentText)
      outputs == IF mains = {} THEN {} ELSE Select(d, SetMin(mains), HasClassMwParserOutput)
  IN IF outputs = {} THEN 0 ELSE SetMin(outputs)

\* the headings, paragraphs and lists of the parser output in document order
WikiElements(d) == Sorted(Select(d, WikiParserOutput(d), IsWikiSectionElement))

\* the skip flag at the k-th element: whether the last non-empty heading
\* before it is a skip title
SkipInEffect(d, es, k) ==
  LET hs == {j \in 1..(k - 1) :
               d[es[j]].tag \in HeadingTags /\ Trim(TextOf(d, es[j])) # <<>>}
  IN hs # {} /\ IsWikiSkipHeading(Trim(TextOf(d, es[SetMax(hs)])))

\* C29: the text of extract_wikipedia_content holds a non-empty heading
\* exactly if it is no skip title, and a paragraph or the items of a list
\* exactly if the last non-empty heading before it is no skip title
WikipediaSkipFlag ==
  JustRan("wikipedia") /\ WikiParserOutput(doc) # 0 =>
    LET es == WikiElements(doc)
        text == tried[Len(tried)].output
    IN \A k \in 1..Len(es) :
         LET element_text == Trim(TextOf(doc, es[k]))
         IN CASE element_text = <<>> -> TRUE
              [] element_text # <<>> /\ doc[es[k]].tag \in HeadingTags ->
                   Contains(text, element_text) <=> ~IsWikiSkipHeading(element_text)
              [] element_text # <<>> /\ doc[es[k]].tag = "p" ->
                   ByteLen(element_text) >= 20 =>
                     (Contains(text, element_text) <=> ~SkipInEffect(doc, es, k))
              [] OTHER ->
                   \A li \in Select(doc, es[k], IsLi) :
                     Trim(TextOf(doc, li)) # <<>> =>
                       (Contains(text, <<BULLET, " ">> \o Trim(TextOf(doc, li)))
                          <=> ~SkipInEffect(doc, es, k))

\* the Wikipedia strategy left out a section under a skip title and took
\* up the section under the heading after it
SkippedThenIncluded ==
  /\ JustRan("wikipedia")
  /\ WikiParserOutput(doc) # 0
  /\ \E j, k \in 1..Len(WikiElements(doc)) :
       /\ j < k
       /\ doc[WikiElements(doc)[j]].tag = "p"
       /\ SkipInEffect(doc, WikiElements(doc), j)
       /\ ~Contains(tried[Len(tried)].output, TextOf(doc, WikiElements(doc)[j]))
       /\ doc[WikiElements(doc)[k]].tag = "p"
       /\ ~SkipInEffect(doc, WikiElements(doc), k)
       /\ Contains(tried[Len(tried)].output, TextOf(doc, WikiElements(doc)[k]))

\* the text holds "http://" or "https://"
HoldsUrlScheme(text) ==
  Contains(text, <<"h", "t", "t", "p", ":", "/", "/">>) \/ Contains(text, <<"h", "t", "t", "p", "s", ":", "/", "/">>)

\* C30: the text get_text_content returns for an article holds no
\* "http://" and no "https://", whatever the configuration
TextWithoutUrl ==
  JustRan("article") =>
    \A a \in Select(doc, 0, IsArticle) : ~HoldsUrlScheme(get_text_content(doc, a, config))
====
